---- MODULE Spec2Model ----
(***************************************************************************)
(* Food-Advisor: the Calculator page's meal nutrient aggregation           *)
(* (handleCalculateNutrients), the lookup route it calls                   *)
(* (GET /api/foods/search) and the calculator history it writes.           *)
(*                                                                         *)
(* Text is a sequence of one-character strings, so that trim, toLowerCase, *)
(* includes and parseFloat are computed character by character.  A         *)
(* JavaScript Number is an IEEE 754 double, kept as sign, 53-bit           *)
(* significand and binary exponent; the significand is a little-endian     *)
(* sequence of 15-bit limbs.                                               *)
(***************************************************************************)
EXTENDS Integers, Sequences, FiniteSets, TLC

(***************************************************************************)
(* Unsigned big integers: little-endian limb sequences, no high zero limb. *)
(***************************************************************************)
LimbBits == 15
Base == 32768

Tl(x) == IF x = <<>> THEN <<>> ELSE Tail(x)
Limb(x, i) == IF i <= Len(x) THEN x[i] ELSE 0

RECURSIVE BNorm(_)
BNorm(x) ==
  IF x = <<>> THEN <<>>
  ELSE IF x[Len(x)] = 0 THEN BNorm(SubSeq(x, 1, Len(x) - 1)) ELSE x

RECURSIVE BFromInt(_)
BFromInt(n) == IF n = 0 THEN <<>> ELSE <<n % Base>> \o BFromInt(n \div Base)

RECURSIVE BToInt(_)
BToInt(x) == IF x = <<>> THEN 0 ELSE x[1] + Base * BToInt(Tail(x))

RECURSIVE BAddC(_, _, _)
BAddC(x, y, c) ==
  IF x = <<>> /\ y = <<>> THEN (IF c = 0 THEN <<>> ELSE <<c>>)
  ELSE LET s == Limb(x, 1) + Limb(y, 1) + c
       IN  <<s % Base>> \o BAddC(Tl(x), Tl(y), s \div Base)

BAdd(x, y) == BAddC(x, y, 0)

RECURSIVE BSubB(_, _, _)
BSubB(x, y, b) ==
  IF x = <<>> THEN <<>>
  ELSE LET d == x[1] - Limb(y, 1) - b
       IN  IF d < 0 THEN <<d + Base>> \o BSubB(Tail(x), Tl(y), 1)
           ELSE <<d>> \o BSubB(Tail(x), Tl(y), 0)

\* x - y for x >= y
BSub(x, y) == BNorm(BSubB(x, y, 0))

RECURSIVE BCmp(_, _)
BCmp(x, y) ==
  IF Len(x) # Len(y) THEN (IF Len(x) < Len(y) THEN -1 ELSE 1)
  ELSE IF x = <<>> THEN 0
  ELSE LET n == Len(x)
       IN  IF x[n] # y[n] THEN (IF x[n] < y[n] THEN -1 ELSE 1)
           ELSE BCmp(SubSeq(x, 1, n - 1), SubSeq(y, 1, n - 1))

RECURSIVE BMulC(_, _, _)
BMulC(x, k, c) ==
  IF x = <<>> THEN BFromInt(c)
  ELSE LET p == x[1] * k + c
       IN  <<p % Base>> \o BMulC(Tail(x), k, p \div Base)

\* x * k for 0 <= k < Base
BMulSmall(x, k) == BNorm(BMulC(x, k, 0))

RECURSIVE BMulR(_, _)
BMulR(x, y) ==
  IF y = <<>> THEN <<>>
  ELSE IF y[1] = 0 THEN <<0>> \o BMulR(x, Tail(y))
  ELSE BAdd(BMulSmall(x, y[1]), <<0>> \o BMulR(x, Tail(y)))

\* x * y, the recursion running over the operand with fewer non-zero limbs
BMul(x, y) ==
  IF Cardinality({i \in 1..Len(x) : x[i] # 0}) < Cardinality({i \in 1..Len(y) : y[i] # 0})
  THEN BNorm(BMulR(y, x))
  ELSE BNorm(BMulR(x, y))

RECURSIVE BDivR(_, _, _)
BDivR(x, k, r) ==
  IF x = <<>> THEN [q |-> <<>>, r |-> r]
  ELSE LET n == Len(x)
           cur == r * Base + x[n]
           rest == BDivR(SubSeq(x, 1, n - 1), k, cur % k)
       IN  [q |-> rest.q \o <<cur \div k>>, r |-> rest.r]

\* quotient and remainder of x by k, 0 < k <= Base
BDivSmall(x, k) == LET d == BDivR(x, k, 0) IN [q |-> BNorm(d.q), r |-> d.r]

BShl(x, n) ==
  IF x = <<>> THEN <<>>
  ELSE [i \in 1..(n \div LimbBits) |-> 0] \o BMulSmall(x, 2 ^ (n % LimbBits))

BShr(x, n) ==
  LET w == n \div LimbBits
  IN  IF w >= Len(x) THEN <<>>
      ELSE BDivSmall(SubSeq(x, w + 1, Len(x)), 2 ^ (n % LimbBits)).q

RECURSIVE IntBits(_)
IntBits(v) == IF v = 0 THEN 0 ELSE 1 + IntBits(v \div 2)

BitLen(x) == IF x = <<>> THEN 0 ELSE (Len(x) - 1) * LimbBits + IntBits(x[Len(x)])

BOdd(x) == x # <<>> /\ x[1] % 2 = 1

(***************************************************************************)
(* IEEE 754 binary64 values in the normal range: (-1)^s * m * 2^e with m   *)
(* of exactly 53 bits, or zero (m empty; -0 and +0 are not distinguished:  *)
(* they compare equal and both print as "0").  Every operation is the      *)
(* exact result rounded to nearest, ties to even.                          *)
(***************************************************************************)
Precision == 53

FZero == [s |-> 0, m |-> <<>>, e |-> 0]

\* the double nearest to (-1)^s * (x + f) * 2^e, where 0 <= f < 1 and f > 0 iff sticky
FRound(s, x, e, sticky) ==
  LET L == BitLen(x)
  IN  IF x = <<>> THEN FZero
      ELSE IF L <= Precision
      THEN [s |-> s, m |-> BShl(x, Precision - L), e |-> e - (Precision - L)]
      ELSE LET sh == L - Precision
               q == BShr(x, sh)
               rem == BSub(x, BShl(q, sh))
               half == BShl(<<1>>, sh - 1)
               c == BCmp(rem, half)
               up == c > 0 \/ (c = 0 /\ (sticky \/ BOdd(q)))
               q2 == IF up THEN BAdd(q, <<1>>) ELSE q
           IN  IF BitLen(q2) > Precision
               THEN [s |-> s, m |-> BShr(q2, 1), e |-> e + sh + 1]
               ELSE [s |-> s, m |-> q2, e |-> e + sh]

FFromInt(n) == FRound(IF n < 0 THEN 1 ELSE 0, BFromInt(IF n < 0 THEN -n ELSE n), 0, FALSE)

\* a * b
FMul(a, b) ==
  IF a.m = <<>> \/ b.m = <<>> THEN FZero
  ELSE FRound((a.s + b.s) % 2, BMul(a.m, b.m), a.e + b.e, FALSE)

\* a / k for an integer 0 < k < Base
FDivSmall(a, k) ==
  IF a.m = <<>> THEN FZero
  ELSE LET d == BDivSmall(BShl(a.m, LimbBits), k)
       IN  FRound(a.s, d.q, a.e - LimbBits, d.r # 0)

\* a + b
FAdd(a, b) ==
  IF a.m = <<>> THEN b
  ELSE IF b.m = <<>> THEN a
  ELSE LET e == IF a.e < b.e THEN a.e ELSE b.e
           xa == BShl(a.m, a.e - e)
           xb == BShl(b.m, b.e - e)
           c == BCmp(xa, xb)
       IN  IF a.s = b.s THEN FRound(a.s, BAdd(xa, xb), e, FALSE)
           ELSE IF c = 0 THEN FZero
           ELSE IF c > 0 THEN FRound(a.s, BSub(xa, xb), e, FALSE)
           ELSE FRound(b.s, BSub(xb, xa), e, FALSE)

\* Math.round(a): the integer floor(a + 1/2), computed exactly
MathRound(a) ==
  IF a.m = <<>> THEN 0
  ELSE IF a.e >= 0
  THEN (IF a.s = 0 THEN 1 ELSE -1) * BToInt(BShl(a.m, a.e))
  ELSE LET t == -a.e
           fl == BShr(a.m, t)
           rem == BSub(a.m, BShl(fl, t))
           c == BCmp(rem, BShl(<<1>>, t - 1))
       IN  IF a.s = 0 THEN BToInt(fl) + (IF c >= 0 THEN 1 ELSE 0)
           ELSE -(BToInt(fl) + (IF c > 0 THEN 1 ELSE 0))

\* the double a decimal literal n / p denotes (p a power of ten below Base)
FFromDecimal(n, p) == FDivSmall(FFromInt(n), p)


(***************************************************************************)
(* Text: String.prototype.trim, toLowerCase, includes and concatenation.   *)
(***************************************************************************)
UpperCase == <<"A", "B", "C", "D", "E", "F", "G", "H", "I", "J", "K", "L", "M",
               "N", "O", "P", "Q", "R", "S", "T", "U", "V", "W", "X", "Y", "Z">>
LowerCase == <<"a", "b", "c", "d", "e", "f", "g", "h", "i", "j", "k", "l", "m",
               "n", "o", "p", "q", "r", "s", "t", "u", "v", "w", "x", "y", "z">>
Digits == <<"0", "1", "2", "3", "4", "5", "6", "7", "8", "9">>

IsSpace(c) == c = " "
IsDigit(c) == \E i \in 1..Len(Digits) : Digits[i] = c
DigitVal(c) == (CHOOSE i \in 1..Len(Digits) : Digits[i] = c) - 1

LowerChar(c) ==
  IF \E i \in 1..Len(UpperCase) : UpperCase[i] = c
  THEN LowerCase[CHOOSE i \in 1..Len(UpperCase) : UpperCase[i] = c]
  ELSE c

toLowerCase(s) == [i \in 1..Len(s) |-> LowerChar(s[i])]

RECURSIVE TrimStart(_)
TrimStart(s) == IF s # <<>> /\ IsSpace(Head(s)) THEN TrimStart(Tail(s)) ELSE s

RECURSIVE TrimEnd(_)
TrimEnd(s) ==
  IF s # <<>> /\ IsSpace(s[Len(s)]) THEN TrimEnd(SubSeq(s, 1, Len(s) - 1)) ELSE s

trim(s) == TrimEnd(TrimStart(s))

\* s.includes(t)
includes(s, t) ==
  \E k \in 0..(Len(s) - Len(t)) : SubSeq(s, k + 1, k + Len(t)) = t

NotFoundSuffix == <<" ", "(", "n", "o", "t", " ", "f", "o", "u", "n", "d", ")">>

(***************************************************************************)
(* parseFloat: leading white space, an optional sign, digits, an optional  *)
(* fraction; whatever follows is ignored; NaN when there is no digit.  The *)
(* value is the decimal n / p (p a power of ten), which denotes the double *)
(* nearest to it.                                                          *)
(***************************************************************************)
RECURSIVE TakeDigits(_)
TakeDigits(s) ==
  IF s # <<>> /\ IsDigit(Head(s)) THEN <<Head(s)>> \o TakeDigits(Tail(s)) ELSE <<>>

RECURSIVE DigitsToInt(_)
DigitsToInt(ds) ==
  IF ds = <<>> THEN 0
  ELSE 10 * DigitsToInt(SubSeq(ds, 1, Len(ds) - 1)) + DigitVal(ds[Len(ds)])

NaN == [nan |-> TRUE, n |-> 0, p |-> 1]

parseFloat(s) ==
  LET t == TrimStart(s)
      signed == t # <<>> /\ t[1] \in {"+", "-"}
      u == IF signed THEN Tail(t) ELSE t
      intPart == TakeDigits(u)
      r == SubSeq(u, Len(intPart) + 1, Len(u))
      fracPart == IF r # <<>> /\ r[1] = "." THEN TakeDigits(Tail(r)) ELSE <<>>
      mag == DigitsToInt(intPart \o fracPart)
  IN  IF intPart = <<>> /\ fracPart = <<>> THEN NaN
      ELSE [nan |-> FALSE,
            n |-> IF signed /\ t[1] = "-" THEN -mag ELSE mag,
            p |-> 10 ^ Len(fracPart)]

isNaN(x) == x.nan

\* the double a parsed number denotes
NumberValue(x) == FFromDecimal(x.n, x.p)


(***************************************************************************)
(* URL transport of the query: encodeURIComponent on the client, the query *)
(* string parser on the server.                                            *)
(***************************************************************************)
EncodeChar(c) ==
  CASE c = " " -> <<"%", "2", "0">>
    [] c = "," -> <<"%", "2", "C">>
    [] c = "+" -> <<"%", "2", "B">>
    [] c = "%" -> <<"%", "2", "5">>
    [] OTHER   -> <<c>>

RECURSIVE encodeURIComponent(_)
encodeURIComponent(s) ==
  IF s = <<>> THEN <<>> ELSE EncodeChar(Head(s)) \o encodeURIComponent(Tail(s))

DecodeEscape(hi, lo) ==
  CASE <<hi, lo>> = <<"2", "0">> -> " "
    [] <<hi, lo>> = <<"2", "C">> -> ","
    [] <<hi, lo>> = <<"2", "B">> -> "+"
    [] <<hi, lo>> = <<"2", "5">> -> "%"
    [] OTHER -> "?"

RECURSIVE DecodeQuery(_)
DecodeQuery(s) ==
  IF s = <<>> THEN <<>>
  ELSE IF s[1] = "%" /\ Len(s) >= 3
       THEN <<DecodeEscape(s[2], s[3])>> \o DecodeQuery(SubSeq(s, 4, Len(s)))
  ELSE IF s[1] = "+" THEN <<" ">> \o DecodeQuery(Tail(s))
  ELSE <<s[1]>> \o DecodeQuery(Tail(s))

(***************************************************************************)
(* The six tracked nutrients.  A per-100g value is held in hundredths (the *)
(* decimal literal of the JSON body), a computed value or a total in       *)
(* tenths (k stands for the double nearest to k / 10, which is what        *)
(* Math.round(x * 10) / 10 yields).                                        *)
(***************************************************************************)
NutrientFields == {"calories", "protein", "fat", "carbs", "sugar", "fiber"}

UsdaName(f) ==
  CASE f = "calories" -> "Energy"
    [] f = "protein"  -> "Protein"
    [] f = "fat"      -> "Total lipid (fat)"
    [] f = "carbs"    -> "Carbohydrate, by difference"
    [] f = "sugar"    -> "Total Sugars"
    [] f = "fiber"    -> "Fiber, total dietary"

ZeroNutrients == [f \in NutrientFields |-> 0]
ZeroTotals == [f \in NutrientFields |-> FZero]

SetMin(S) == CHOOSE x \in S : \A y \in S : x <= y

\* null is <<>>, a number v is <<v>>; a food without a foodNutrients list has <<>>
getNutrient(food, name) ==
  LET hits == {i \in 1..Len(food.foodNutrients) : food.foodNutrients[i].nutrientName = name}
  IN  IF hits = {} THEN <<>> ELSE <<food.foodNutrients[SetMin(hits)].value>>

\* getNutrient(...) || 0
OrZero(r) == IF r = <<>> THEN 0 ELSE r[1]

\* the description is matched as it is written, without toLowerCase
SelectFoodCaseSensitive(foodName, foods) ==
  LET lowerQ == toLowerCase(foodName)
      filtered == SelectSeq(foods, LAMBDA f :
                      f.description # <<>> /\ includes(f.description, lowerQ))
  IN  IF Len(filtered) > 0 THEN <<filtered[1]>>
      ELSE IF Len(foods) > 0 THEN <<foods[1]>>
      ELSE <<>>

\* the candidate the calculator uses: <<>> is null
SelectFood(foodName, foods) ==
  LET lowerQ == toLowerCase(foodName)
      filtered == SelectSeq(foods, LAMBDA f :
                      f.description # <<>> /\ includes(toLowerCase(f.description), lowerQ))
  IN  IF Len(filtered) > 0 THEN <<filtered[1]>>
      ELSE IF Len(foods) > 0 THEN <<foods[1]>>
      ELSE <<>>

FTen == FFromInt(10)

TenthsValue(k) == FDivSmall(FFromInt(k), 10)

\* Math.round(per100g * conversionFactor * 10), the tenths of the computed value
ScaleNutrient(per100g, conversionFactor) ==
  MathRound(FMul(FMul(FFromDecimal(per100g, 100), conversionFactor), FTen))

\* the per-100g values are built from the nutrients the food lists only: a
\* nutrient it does not list is missing from the set, and counts as 0 in the
\* multiplication
FoundItemOmitsMissing(item, food) ==
  LET per100g == [f \in NutrientFields |-> OrZero(getNutrient(food, UsdaName(f)))]
      amountGrams == parseFloat(item.amountGrams)
      conversionFactor == FDivSmall(NumberValue(amountGrams), 100)
  IN  [foodName |-> IF food.description # <<>> THEN food.description ELSE item.foodName,
       amountGrams |-> amountGrams,
       nutrientsPer100g |->
         [f \in {g \in NutrientFields : getNutrient(food, UsdaName(g)) # <<>>} |-> per100g[f]],
       computedNutrients |->
         [f \in NutrientFields |-> ScaleNutrient(per100g[f], conversionFactor)]]

FoundItem(item, food) ==
  LET per100g == [f \in NutrientFields |-> OrZero(getNutrient(food, UsdaName(f)))]
      amountGrams == parseFloat(item.amountGrams)
      conversionFactor == FDivSmall(NumberValue(amountGrams), 100)
  IN  [foodName |-> IF food.description # <<>> THEN food.description ELSE item.foodName,
       amountGrams |-> amountGrams,
       nutrientsPer100g |-> per100g,
       computedNutrients |->
         [f \in NutrientFields |-> ScaleNutrient(per100g[f], conversionFactor)]]

NotFoundItem(item) ==
  [foodName |-> item.foodName \o NotFoundSuffix,
   amountGrams |-> parseFloat(item.amountGrams),
   nutrientsPer100g |-> ZeroNutrients,
   computedNutrients |-> ZeroNutrients]

\* nutrientTotals.x = computedNutrients.x: the item replaces the running total
AccumulateOverwrites(totals, computed) ==
  [f \in NutrientFields |-> TenthsValue(computed[f])]

\* nutrientTotals.x += computedNutrients.x
Accumulate(totals, computed) ==
  [f \in NutrientFields |-> FAdd(totals[f], TenthsValue(computed[f]))]

\* an item without a food is skipped instead of being pushed
ProcessItemDropsNotFound(item, foods, acc) ==
  LET food == SelectFood(item.foodName, foods)
  IN  IF food # <<>>
      THEN CHOOSE next \in
             { [results |-> Append(acc.results, c),
                nutrientTotals |-> Accumulate(acc.nutrientTotals, c.computedNutrients)]
                 : c \in {FoundItem(item, food[1])} } : TRUE
      ELSE acc

\* results.unshift instead of results.push
ProcessItemPrepends(item, foods, acc) ==
  LET food == SelectFood(item.foodName, foods)
  IN  IF food # <<>>
      THEN CHOOSE next \in
             { [results |-> <<c>> \o acc.results,
                nutrientTotals |-> Accumulate(acc.nutrientTotals, c.computedNutrients)]
                 : c \in {FoundItem(item, food[1])} } : TRUE
      ELSE [results |-> <<NotFoundItem(item)>> \o acc.results,
            nutrientTotals |-> acc.nutrientTotals]

\* one pass of the loop body after the response body was read
ProcessItem(item, foods, acc) ==
  LET food == SelectFood(item.foodName, foods)
  IN  IF food # <<>>
      THEN CHOOSE next \in
             { [results |-> Append(acc.results, c),
                nutrientTotals |-> Accumulate(acc.nutrientTotals, c.computedNutrients)]
                 : c \in {FoundItem(item, food[1])} } : TRUE
      ELSE [results |-> Append(acc.results, NotFoundItem(item)),
            nutrientTotals |-> acc.nutrientTotals]

\* Math.round(total): the totals are rounded to whole numbers
RoundTotalsWhole(totals) ==
  [f \in NutrientFields |-> 10 * MathRound(totals[f])]

\* Math.round(total * 10), the tenths of the reported total
RoundTotals(totals) ==
  [f \in NutrientFields |-> MathRound(FMul(totals[f], FTen))]

IsValidItem(item) ==
  /\ trim(item.foodName) # <<>>
  /\ trim(item.amountGrams) # <<>>
  /\ ~isNaN(parseFloat(item.amountGrams))

ValidItems(items) == SelectSeq(items, IsValidItem)

(***************************************************************************)
(* The server route GET /api/foods/search and its call of the USDA API.    *)
(* A USDA outcome is [kind, hasFoods, foods]: kind "neterr" (fetch         *)
(* rejects), "status" (non-success status), "malformed" (the body is not   *)
(* JSON) or "ok" (a JSON body, with or without a foods list).              *)
(***************************************************************************)
searchUSDAFull(usda) ==
  IF usda.kind \in {"neterr", "status", "malformed"}
  THEN [threw |-> TRUE, foods |-> <<>>]
  ELSE [threw |-> FALSE, foods |-> IF usda.hasFoods THEN usda.foods ELSE <<>>]

\* the route without its try/catch: a failed USDA request ends in the
\* framework's error page, which is not JSON
FoodsSearchRouteNoCatch(q, usda) ==
  IF q = <<>> THEN [status |-> 400, json |-> TRUE, hasFoods |-> FALSE, foods |-> <<>>]
  ELSE LET r == searchUSDAFull(usda)
       IN  IF r.threw
           THEN [status |-> 500, json |-> FALSE, hasFoods |-> FALSE, foods |-> <<>>]
           ELSE [status |-> 200, json |-> TRUE, hasFoods |-> TRUE, foods |-> r.foods]

\* the response the route sends: a status and a body, which is JSON (res.json)
\* with or without a foods list
FoodsSearchRoute(q, usda) ==
  IF q = <<>> THEN [status |-> 400, json |-> TRUE, hasFoods |-> FALSE, foods |-> <<>>]
  ELSE LET r == searchUSDAFull(usda)
       IN  IF r.threw
           THEN [status |-> 500, json |-> TRUE, hasFoods |-> FALSE, foods |-> <<>>]
           ELSE [status |-> 200, json |-> TRUE, hasFoods |-> TRUE, foods |-> r.foods]

\* data.foods || []
DataFoods(body) == IF body.hasFoods THEN body.foods ELSE <<>>


(***************************************************************************)
(* The USDA database as the model sees it, and the line items typed.       *)
(***************************************************************************)
sMilk == <<"m", "i", "l", "k">>
sPisang == <<"p", "i", "s", "a", "n", "g">>
sZz == <<"z", "z">>
sAlmondDrink == <<"A", "l", "m", "o", "n", "d", " ", "d", "r", "i", "n", "k">>
sMilkWhole == <<"M", "i", "l", "k", ",", " ", "w", "h", "o", "l", "e">>
sChocolateMilk == <<"C", "h", "o", "c", "o", "l", "a", "t", "e", " ", "m", "i", "l", "k">>
sBananasRaw == <<"B", "a", "n", "a", "n", "a", "s", ",", " ", "r", "a", "w">>

Nutrient(name, hundredths) == [nutrientName |-> name, value |-> hundredths]

AlmondDrink ==
  [description |-> sAlmondDrink,
   foodNutrients |-> <<Nutrient("Energy", 1500), Nutrient("Protein", 55),
                       Nutrient("Total lipid (fat)", 122),
                       Nutrient("Carbohydrate, by difference", 34)>>]

MilkWhole ==
  [description |-> sMilkWhole,
   foodNutrients |-> <<Nutrient("Water", 8813), Nutrient("Protein", 315),
                       Nutrient("Energy", 6100), Nutrient("Total lipid (fat)", 325),
                       Nutrient("Carbohydrate, by difference", 480),
                       Nutrient("Total Sugars", 505)>>]

ChocolateMilk ==
  [description |-> sChocolateMilk,
   foodNutrients |-> <<Nutrient("Energy", 8300), Nutrient("Protein", 317),
                       Nutrient("Total lipid (fat)", 339),
                       Nutrient("Carbohydrate, by difference", 1034),
                       Nutrient("Total Sugars", 954),
                       Nutrient("Fiber, total dietary", 80)>>]

BananasRaw ==
  [description |-> sBananasRaw,
   foodNutrients |-> <<Nutrient("Energy", 8900), Nutrient("Protein", 109),
                       Nutrient("Total lipid (fat)", 33),
                       Nutrient("Carbohydrate, by difference", 2284),
                       Nutrient("Total Sugars", 1223),
                       Nutrient("Fiber, total dietary", 260)>>]

\* what the USDA search returns for a query when it answers: for "milk" a list
\* whose first description does not contain the query and whose second and third
\* do; for "pisang" one candidate that does not contain it; nothing otherwise
FoodDB(q) ==
  CASE q = sMilk   -> <<AlmondDrink, MilkWhole, ChocolateMilk>>
    [] q = sPisang -> <<BananasRaw>>
    [] OTHER       -> <<>>

\* the rows typed: a blank name, a negative amount, a name no description
\* contains, a name without candidates
RowInputs ==
  { [foodName |-> <<>>,    amountGrams |-> <<"1", "0", "0">>],
    [foodName |-> sMilk,   amountGrams |-> <<"-", "5">>],
    [foodName |-> sPisang, amountGrams |-> <<"8", "5">>],
    [foodName |-> sZz,     amountGrams |-> <<"4", "0">>] }

MaxRows == 3
MaxClicks == 2
MaxFaults == 1
MaxSaves == 22
MaxSearches == 2
MaxSignups == 2
MaxPosts == 1
MaxFetches == 3
MaxId == 4
HistoryCap == 20

MealItem(id, row) == [id |-> id, foodName |-> row.foodName, amountGrams |-> row.amountGrams]

\* the row lists the editor can hold: ids 1..n, fields as typed, no row typed twice
Meals ==
  UNION { { [i \in 1..n |-> MealItem(i, rows[i])] :
              rows \in {r \in [1..n -> RowInputs] :
                          \A i, j \in 1..n : r[i] = r[j] => i = j} }
          : n \in 1..MaxRows }

NominalUsda(q) == [kind |-> "ok", hasFoods |-> TRUE, foods |-> FoodDB(q)]

UsdaFaults ==
  { [kind |-> k, hasFoods |-> FALSE, foods |-> <<>>]
      : k \in {"neterr", "status", "malformed", "ok"} }

\* what can come back for one request: net is "ok" (the server's response is
\* delivered) or "neterr" (fetch rejects)
Nominal(q) == [net |-> "ok", usda |-> NominalUsda(q)]

Faulty(q) ==
  { [net |-> "ok", usda |-> u] : u \in UsdaFaults }
    \cup { [net |-> "neterr", usda |-> NominalUsda(q)] }

VARIABLES
  mealItems,          \* Calculator state: the rows
  calculatedResults,  \* Calculator state
  totalNutrients,     \* Calculator state: <<>> is null, else <<totals>>
  calculating,        \* Calculator state
  showLoginModal,     \* Calculator state
  isLoggedIn,         \* Calculator state, read from localStorage on mount
  calculatorHistory,  \* localStorage "calculatorHistory", parsed
  pc,                 \* "idle", or "fetch": the handler awaits a response
  validItems,         \* the handler's validItems
  results,            \* the handler's results
  nutrientTotals,     \* the handler's nutrientTotals (doubles)
  pending,            \* the URL query of the request in flight
  responses,          \* what came back for each request of the current call
  fetchCount,         \* number of lookup requests issued so far
  alertMsg,           \* the last alert shown: "none", "invalid" or "error"
  clicks,             \* number of clicks on Calculate so far
  faults,             \* number of faulty responses so far
  existingHistory,    \* saveCalculationToHistory's history between getItem and setItem
  other,              \* the state of a second mounted Calculator page
  userId,             \* localStorage "isLoggedIn"/"userId": "none" when logged out
  owners,             \* for each calculatorHistory entry, the user logged in when it was saved
  searchHistory,      \* localStorage "searchHistory", parsed
  searchTerm,         \* Home: the term of the search in flight, <<>> when none
  loading,            \* Home state
  homeResults,        \* Home state: results
  searches,           \* number of searches performed so far
  historyPage,        \* History state once mounted, <<>> before
  location,           \* the route on display in the window that navigates
  users,              \* server: the rows of the users table
  helpMessages,       \* server: the rows of the help_messages table
  signups,            \* server: signup requests between the email check and the insert
  reply,              \* server: the response sent last
  expandedItems,      \* History state: the indices of the expanded items
  cachedResults,      \* History state: the results by food name
  loadingItems,       \* History state: the indices shown as loading
  flights,            \* History: the item clicks awaiting their response, each with
                      \* the cachedResults and loadingItems its handler closed over
  fetched,            \* the food names requested by the History page so far
  earlier,            \* Home: the terms of the searches in flight issued before searchTerm
  localStorage,       \* the keys isLoggedIn, userId, loggedInEmail, favoriteFood
  warning             \* Login state

calcVars == <<calculatedResults, totalNutrients, calculating>>
callVars == <<pc, validItems, results, nutrientTotals, pending, responses>>
vars == <<mealItems, calculatedResults, totalNutrients, calculating, showLoginModal,
          isLoggedIn, calculatorHistory, pc, validItems, results, nutrientTotals,
          pending, responses, fetchCount, alertMsg, clicks, faults,
          existingHistory, other, userId, owners, searchHistory, searchTerm,
          loading, homeResults, searches, historyPage, location,
          users, helpMessages, signups, reply, expandedItems, cachedResults,
          loadingItems, flights, fetched, earlier, localStorage, warning>>
\* the server's tables and requests
farVars == <<users, helpMessages, signups, reply>>
\* the Calculator and Home pages, their calls in flight and the stored histories
pageVars == <<mealItems, calculatedResults, totalNutrients, calculating, showLoginModal,
              isLoggedIn, calculatorHistory, pc, validItems, results, nutrientTotals,
              pending, responses, fetchCount, alertMsg, clicks, faults,
              existingHistory, other, userId, owners, searchHistory, searchTerm,
              loading, homeResults, searches, historyPage, location>>
\* the Home page, the History page and the route
siteVars == <<searchHistory, searchTerm, loading, homeResults, searches, historyPage,
              location, farVars, expandedItems, cachedResults, loadingItems,
                 flights, fetched, earlier, localStorage, warning>>
\* what the steps of one Calculator page with a synchronous save leave alone
restVars == <<existingHistory, other, userId, siteVars>>

\* what POST /api/login answers for the account of user u: data.user
Account(u) ==
  [id |-> u,
   email |-> IF u = "A" THEN "a@example.com" ELSE "b@example.com",
   favoriteFood |-> IF u = "A" THEN <<sPisang>> ELSE <<>>]

\* the server has just been started on empty tables; the client store holds the
\* keys of the user logged in, if any
FarInit ==
  /\ users = <<>>
  /\ helpMessages = <<>>
  /\ signups = <<>>
  /\ reply = [route |-> "none", status |-> 0, error |-> "", data |-> <<>>,
              typed |-> "none", header |-> <<>>, email |-> ""]
  /\ expandedItems = {}
  /\ cachedResults = {}
  /\ loadingItems = {}
  /\ flights = <<>>
  /\ fetched = <<>>
  /\ earlier = <<>>
  /\ localStorage =
       IF userId = "none"
       THEN [isLoggedIn |-> <<>>, userId |-> <<>>, loggedInEmail |-> <<>>,
             favoriteFood |-> <<>>]
       ELSE [isLoggedIn |-> <<"true">>, userId |-> <<Account(userId).id>>,
             loggedInEmail |-> <<Account(userId).email>>,
             favoriteFood |-> Account(userId).favoriteFood]
  /\ warning = ""

\* the state of a freshly mounted Calculator page whose rows were typed in
InitWith(meals) ==
  /\ mealItems \in meals
  /\ calculatedResults = <<>>
  /\ totalNutrients = <<>>
  /\ calculating = FALSE
  /\ showLoginModal = FALSE
  /\ userId \in {"none", "A"}
  /\ isLoggedIn = (userId # "none")
  /\ calculatorHistory = <<>>
  /\ owners = <<>>
  /\ existingHistory = <<>>
  /\ other = <<>>
  /\ searchHistory = <<>>
  /\ searchTerm = <<>>
  /\ loading = FALSE
  /\ homeResults = <<>>
  /\ searches = 0
  /\ historyPage = <<>>
  /\ location = "/calculator"
  /\ pc = "idle"
  /\ validItems = <<>>
  /\ results = <<>>
  /\ nutrientTotals = ZeroTotals
  /\ pending = <<>>
  /\ responses = <<>>
  /\ fetchCount = 0
  /\ alertMsg = "none"
  /\ clicks = 0
  /\ faults = 0
  /\ FarInit

Init == InitWith(Meals)

closeLoginModal ==
  /\ showLoginModal
  /\ showLoginModal' = FALSE
  /\ UNCHANGED <<mealItems, calcVars, isLoggedIn, calculatorHistory, callVars,
                 fetchCount, alertMsg, clicks, faults, owners, restVars>>

removeMealItem ==
  /\ \E id \in {mealItems[i].id : i \in 1..Len(mealItems)} :
       mealItems' = IF Len(mealItems) > 1
                    THEN SelectSeq(mealItems, LAMBDA item : item.id # id)
                    ELSE mealItems
  /\ UNCHANGED <<calcVars, showLoginModal, isLoggedIn, calculatorHistory, callVars,
                 fetchCount, alertMsg, clicks, faults, owners, restVars>>

\* the largest id among the rows
RECURSIVE MaxOfIds(_)
MaxOfIds(items) ==
  IF Len(items) = 1 THEN items[1].id
  ELSE IF items[1].id > MaxOfIds(Tail(items)) THEN items[1].id
  ELSE MaxOfIds(Tail(items))

\* the new row is numbered by the count of rows
addMealItemCountsRows ==
  /\ Len(mealItems) < MaxRows
  /\ Len(mealItems) + 1 <= MaxId
  /\ mealItems' = Append(mealItems, [id |-> Len(mealItems) + 1, foodName |-> <<>>,
                                     amountGrams |-> <<>>])
  /\ UNCHANGED <<calcVars, showLoginModal, isLoggedIn, calculatorHistory, callVars,
                 fetchCount, alertMsg, clicks, faults, owners, restVars>>

\* the Add button: a blank row with the next id after the largest
addMealItem ==
  /\ Len(mealItems) < MaxRows
  /\ MaxOfIds(mealItems) + 1 <= MaxId
  /\ mealItems' = Append(mealItems, [id |-> MaxOfIds(mealItems) + 1, foodName |-> <<>>,
                                     amountGrams |-> <<>>])
  /\ UNCHANGED <<calcVars, showLoginModal, isLoggedIn, calculatorHistory, callVars,
                 fetchCount, alertMsg, clicks, faults, owners, restVars>>

\* a field of the row with the id is typed over
updateMealItem ==
  /\ \E id \in {mealItems[i].id : i \in 1..Len(mealItems)} :
       \/ \E value \in {<<>>, sPisang} :
            mealItems' = [i \in 1..Len(mealItems) |->
                            IF mealItems[i].id = id
                            THEN [mealItems[i] EXCEPT !.foodName = value]
                            ELSE mealItems[i]]
       \/ \E value \in {<<>>, <<"8", "5">>} :
            mealItems' = [i \in 1..Len(mealItems) |->
                            IF mealItems[i].id = id
                            THEN [mealItems[i] EXCEPT !.amountGrams = value]
                            ELSE mealItems[i]]
  /\ UNCHANGED <<calcVars, showLoginModal, isLoggedIn, calculatorHistory, callVars,
                 fetchCount, alertMsg, clicks, faults, owners, restVars>>

\* the rows are edited, starting from the one blank row of a new page
SpecRows ==
  InitWith({<<MealItem(1, [foodName |-> <<>>, amountGrams |-> <<>>])>>})
    /\ [][addMealItem \/ removeMealItem \/ updateMealItem]_vars

\* the entry stores the per-100g values of each item
HistoryEntryPer100g(res, totals, time) ==
  [items |-> [i \in 1..Len(res) |->
                [foodName |-> res[i].foodName,
                 grams |-> res[i].amountGrams,
                 nutrients |-> res[i].nutrientsPer100g]],
   totalNutrients |-> totals,
   timestamp |-> time]

\* the history entry of a finished calculation
HistoryEntry(res, totals, time) ==
  [items |-> [i \in 1..Len(res) |->
                [foodName |-> res[i].foodName,
                 grams |-> res[i].amountGrams,
                 nutrients |-> res[i].computedNutrients]],
   totalNutrients |-> totals,
   timestamp |-> time]

\* saveCalculationToHistory: the new value of localStorage "calculatorHistory"
saveCalculationToHistory(history, loggedIn, res, totals, time) ==
  IF ~loggedIn THEN history
  ELSE LET h == <<HistoryEntry(res, totals, time)>> \o history
       IN  SubSeq(h, 1, IF Len(h) < HistoryCap THEN Len(h) ELSE HistoryCap)

\* the history is never truncated
saveToHistoryUnbounded(history, foodName, time) ==
  <<[foodName |-> foodName, timestamp |-> time]>> \o history

\* saveToHistory of the Home page: the new value of localStorage "searchHistory"
saveToHistory(history, foodName, time) ==
  LET h == <<[foodName |-> foodName, timestamp |-> time]>> \o history
  IN  SubSeq(h, 1, IF Len(h) < HistoryCap THEN Len(h) ELSE HistoryCap)

\* who was logged in when each entry was saved, kept in step with the history
OwnersAfterSave(own, loggedIn, user) ==
  IF ~loggedIn THEN own
  ELSE LET o == <<user>> \o own
       IN  SubSeq(o, 1, IF Len(o) < HistoryCap THEN Len(o) ELSE HistoryCap)

\* the first request is sent before the login check returns
RequireLoginAfterRequest ==
  /\ ~isLoggedIn
  /\ showLoginModal' = TRUE
  /\ fetchCount' = fetchCount + 1
  /\ UNCHANGED <<mealItems, calcVars, isLoggedIn, calculatorHistory, callVars,
                 alertMsg, faults>>

\* the login check
RequireLogin ==
  /\ ~isLoggedIn
  /\ showLoginModal' = TRUE
  /\ UNCHANGED <<mealItems, calcVars, isLoggedIn, calculatorHistory, callVars,
                 fetchCount, alertMsg, faults>>

\* the displayed results are cleared before the items are validated
RejectInvalidClears ==
  /\ isLoggedIn
  /\ Len(ValidItems(mealItems)) = 0
  /\ alertMsg' = "invalid"
  /\ calculatedResults' = <<>>
  /\ totalNutrients' = <<>>
  /\ UNCHANGED <<mealItems, calculating, showLoginModal, isLoggedIn, calculatorHistory,
                 callVars, fetchCount, faults>>

\* no valid item: alert and return
RejectInvalid ==
  /\ isLoggedIn
  /\ Len(ValidItems(mealItems)) = 0
  /\ alertMsg' = "invalid"
  /\ UNCHANGED <<mealItems, calcVars, showLoginModal, isLoggedIn, calculatorHistory,
                 callVars, fetchCount, faults>>

\* the accumulator starts from the totals on display instead of zero
StartCalculationKeepsTotals ==
  /\ isLoggedIn
  /\ Len(ValidItems(mealItems)) > 0
  /\ calculating' = TRUE
  /\ calculatedResults' = <<>>
  /\ totalNutrients' = <<>>
  /\ validItems' = ValidItems(mealItems)
  /\ results' = <<>>
  /\ nutrientTotals' = IF totalNutrients = <<>> THEN ZeroTotals
                      ELSE [f \in NutrientFields |-> TenthsValue(totalNutrients[1][f])]
  /\ responses' = <<>>
  /\ pending' = encodeURIComponent(ValidItems(mealItems)[1].foodName)
  /\ fetchCount' = fetchCount + 1
  /\ pc' = "fetch"
  /\ UNCHANGED <<mealItems, showLoginModal, isLoggedIn, calculatorHistory, alertMsg, faults>>

\* the state is cleared and the first request is issued
StartCalculation ==
  /\ isLoggedIn
  /\ Len(ValidItems(mealItems)) > 0
  /\ calculating' = TRUE
  /\ calculatedResults' = <<>>
  /\ totalNutrients' = <<>>
  /\ validItems' = ValidItems(mealItems)
  /\ results' = <<>>
  /\ nutrientTotals' = ZeroTotals
  /\ responses' = <<>>
  /\ pending' = encodeURIComponent(ValidItems(mealItems)[1].foodName)
  /\ fetchCount' = fetchCount + 1
  /\ pc' = "fetch"
  /\ UNCHANGED <<mealItems, showLoginModal, isLoggedIn, calculatorHistory, alertMsg, faults>>

\* a click on the Calculate button (disabled while calculating)
handleCalculateNutrients ==
  /\ pc = "idle"
  /\ ~calculating
  /\ clicks < MaxClicks
  /\ clicks' = clicks + 1
  /\ (RequireLogin \/ RejectInvalid \/ StartCalculation)
  /\ UNCHANGED <<owners, restVars>>

\* what the server sends for the request in flight when USDA answers out.usda
ServerResponse(out) == FoodsSearchRoute(DecodeQuery(pending), out.usda)

\* await fetch(url) rejects, or await res.json() throws
ClientThrows(out) == out.net # "ok" \/ ~ServerResponse(out).json

\* the catch block without the finally: the flag is left set
ResponseFailsLeavesFlag(out) ==
  /\ ClientThrows(out)
  /\ alertMsg' = "error"
  /\ pc' = "idle"
  /\ results' = <<>>
  /\ nutrientTotals' = ZeroTotals
  /\ pending' = <<>>
  /\ UNCHANGED <<mealItems, calcVars, showLoginModal, isLoggedIn,
                 calculatorHistory, owners, validItems, fetchCount>>

\* the catch block shows the items processed before the failure
ResponseFailsShowsPartial(out) ==
  /\ ClientThrows(out)
  /\ alertMsg' = "error"
  /\ calculating' = FALSE
  /\ calculatedResults' = results
  /\ pc' = "idle"
  /\ results' = <<>>
  /\ nutrientTotals' = ZeroTotals
  /\ pending' = <<>>
  /\ UNCHANGED <<mealItems, totalNutrients, showLoginModal, isLoggedIn,
                 calculatorHistory, owners, validItems, fetchCount>>

\* the catch block, then finally
ResponseFails(out) ==
  /\ ClientThrows(out)
  /\ alertMsg' = "error"
  /\ calculating' = FALSE
  /\ pc' = "idle"
  /\ results' = <<>>
  /\ nutrientTotals' = ZeroTotals
  /\ pending' = <<>>
  /\ UNCHANGED <<mealItems, calculatedResults, totalNutrients, showLoginModal, isLoggedIn,
                 calculatorHistory, owners, validItems, fetchCount>>

\* the loop body for the item whose response out arrived: res.json(), the choice
\* of the food, the scaling and the accumulation
LoopBody(out) ==
  ProcessItem(validItems[Len(results) + 1],
              DataFoods(ServerResponse(out)),
              [results |-> results, nutrientTotals |-> nutrientTotals])

\* a lookup that came back empty is tried once more before the item is given up
ResponseContinuesRetries(out) ==
  /\ ~ClientThrows(out)
  /\ Len(results) + 1 < Len(validItems)
  /\ IF DataFoods(ServerResponse(out)) = <<>> /\ Len(responses) = Len(results)
     THEN /\ UNCHANGED <<results, nutrientTotals, pending>>
     ELSE \E acc \in {LoopBody(out)} :
            /\ results' = acc.results
            /\ nutrientTotals' = acc.nutrientTotals
            /\ pending' = encodeURIComponent(validItems[Len(results) + 2].foodName)
  /\ fetchCount' = fetchCount + 1
  /\ UNCHANGED <<mealItems, calcVars, showLoginModal, isLoggedIn, calculatorHistory,
                 owners, pc, validItems, alertMsg>>

\* the loop body ran and the next request is issued
ResponseContinues(out) ==
  /\ ~ClientThrows(out)
  /\ Len(results) + 1 < Len(validItems)
  /\ \E acc \in {LoopBody(out)} :
         /\ results' = acc.results
         /\ nutrientTotals' = acc.nutrientTotals
         /\ pending' = encodeURIComponent(validItems[Len(results) + 2].foodName)
  /\ fetchCount' = fetchCount + 1
  /\ UNCHANGED <<mealItems, calcVars, showLoginModal, isLoggedIn, calculatorHistory,
                 owners, pc, validItems, alertMsg>>

\* the loop body ran for the last item: totals, state, history, finally
ResponseFinishes(out) ==
  /\ ~ClientThrows(out)
  /\ Len(results) + 1 = Len(validItems)
  /\ \E acc \in {LoopBody(out)} : \E roundedTotals \in {RoundTotals(acc.nutrientTotals)} :
         /\ calculatedResults' = acc.results
         /\ totalNutrients' = <<roundedTotals>>
         /\ calculatorHistory' = saveCalculationToHistory(calculatorHistory, isLoggedIn,
                                                          acc.results, roundedTotals, clicks)
  /\ owners' = OwnersAfterSave(owners, isLoggedIn, userId)
  /\ calculating' = FALSE
  /\ pc' = "idle"
  /\ results' = <<>>
  /\ nutrientTotals' = ZeroTotals
  /\ pending' = <<>>
  /\ UNCHANGED <<mealItems, showLoginModal, isLoggedIn, validItems, fetchCount, alertMsg>>

\* the response out to the request in flight arrives and the handler resumes
Deliver(out) ==
  /\ pc = "fetch"
  /\ faults' = IF out = Nominal(DecodeQuery(pending)) THEN faults ELSE faults + 1
  /\ responses' = Append(responses, out)
  /\ (ResponseFails(out) \/ ResponseContinues(out) \/ ResponseFinishes(out))
  /\ UNCHANGED <<clicks, restVars>>

\* USDA answers with what it holds and the response reaches the client
NominalResponse ==
  /\ pc = "fetch"
  /\ Deliver(Nominal(DecodeQuery(pending)))

\* the USDA request or the client's request goes wrong
FaultyResponse ==
  /\ pc = "fetch"
  /\ faults < MaxFaults
  /\ \E out \in Faulty(DecodeQuery(pending)) : Deliver(out)

Next ==
  \/ handleCalculateNutrients
  \/ NominalResponse
  \/ FaultyResponse
  \/ closeLoginModal

Spec == Init /\ [][Next]_vars

\* the request in flight is answered: fetch resolves or rejects
ResponseArrives ==
  /\ pc = "fetch"
  /\ \E out \in {Nominal(DecodeQuery(pending))} \cup Faulty(DecodeQuery(pending)) :
       responses' = Append(responses, out)

\* every request in flight is eventually answered
SpecLive == Init /\ [][Next]_vars /\ WF_responses(ResponseArrives)

\* fixed external data: every lookup is answered with what USDA holds
NextNominal ==
  \/ handleCalculateNutrients
  \/ NominalResponse
  \/ closeLoginModal

SpecNominal == Init /\ [][NextNominal]_vars

\* the same, with rows removed between and during calls
NextEdit == NextNominal \/ removeMealItem

SpecEdit == Init /\ [][NextEdit]_vars

(***************************************************************************)
(* The Home page: a search, its response, and the search history.          *)
(***************************************************************************)
\* what can be typed into the search box
Queries == {<<" ">>, sMilk, sPisang, sZz}

\* what the Calculator pages and the History page hold
awayVars == <<mealItems, calcVars, showLoginModal, isLoggedIn, calculatorHistory, callVars,
              fetchCount, alertMsg, clicks, existingHistory, other, userId, owners,
              historyPage, location, farVars, expandedItems, cachedResults, loadingItems,
                 flights, fetched, earlier, localStorage, warning>>

\* the foods shown for a search: those whose description contains the term,
\* else the ones returned, five at most
SearchFoods(term, dataFoods) ==
  LET lowerQ == toLowerCase(term)
      filtered == SelectSeq(dataFoods, LAMBDA f :
                      f.description # <<>> /\ includes(toLowerCase(f.description), lowerQ))
      shown == IF Len(filtered) = 0 THEN dataFoods ELSE filtered
  IN  SubSeq(shown, 1, IF Len(shown) < 5 THEN Len(shown) ELSE 5)

\* the SEARCH button (disabled while loading): a blank query is refused, any
\* other is sent to the server
handleSearch ==
  /\ ~loading
  /\ searches < MaxSearches
  /\ searches' = searches + 1
  /\ \E query \in Queries :
       IF trim(query) = <<>>
       THEN UNCHANGED <<searchTerm, loading, homeResults>>
       ELSE /\ loading' = TRUE
            /\ homeResults' = <<>>
            /\ searchTerm' = query
  /\ UNCHANGED <<awayVars, searchHistory, faults>>

\* performSearch resumes with the response out: the foods are filtered and
\* shown, and a search that shows something is saved to the history
SearchResponse(out) ==
  /\ searchTerm # <<>>
  /\ IF out.net # "ok"
       \/ ~FoodsSearchRoute(DecodeQuery(encodeURIComponent(searchTerm)), out.usda).json
     THEN /\ homeResults' = <<>>
          /\ UNCHANGED searchHistory
     ELSE \E foods \in {SearchFoods(searchTerm,
                           DataFoods(FoodsSearchRoute(
                               DecodeQuery(encodeURIComponent(searchTerm)), out.usda)))} :
            /\ homeResults' = foods
            /\ searchHistory' = IF Len(foods) > 0
                                THEN saveToHistory(searchHistory, searchTerm, searches)
                                ELSE searchHistory
  /\ loading' = FALSE
  /\ searchTerm' = <<>>
  /\ UNCHANGED <<awayVars, searches>>

\* USDA answers the search with what it holds
SearchArrives ==
  /\ searchTerm # <<>>
  /\ SearchResponse(Nominal(searchTerm))
  /\ UNCHANGED faults

\* the USDA request or the client's request of the search goes wrong
SearchFails ==
  /\ searchTerm # <<>>
  /\ faults < MaxFaults
  /\ faults' = faults + 1
  /\ \E out \in Faulty(searchTerm) : SearchResponse(out)

\* Enter is pressed in the search box: handleSearch runs whether or not a
\* search is loading, and a search still in flight is joined by the new one
handleKeyDown ==
  /\ searches < MaxSearches
  /\ searches' = searches + 1
  /\ \E query \in Queries :
       IF trim(query) = <<>>
       THEN UNCHANGED <<searchTerm, loading, homeResults, earlier>>
       ELSE /\ loading' = TRUE
            /\ homeResults' = <<>>
            /\ searchTerm' = query
            /\ earlier' = IF searchTerm = <<>> THEN earlier ELSE Append(earlier, searchTerm)
  /\ UNCHANGED <<mealItems, calcVars, showLoginModal, isLoggedIn, calculatorHistory,
                 callVars, fetchCount, alertMsg, clicks, existingHistory, other, userId,
                 owners, historyPage, location, farVars, expandedItems, cachedResults,
                 loadingItems, flights, fetched, localStorage, warning, searchHistory, faults>>

\* USDA answers a search that a later one has joined, and its performSearch
\* goes on as for any response
EarlierArrives ==
  /\ earlier # <<>>
  /\ \E k \in 1..Len(earlier) :
       /\ \E foods \in {SearchFoods(earlier[k],
                         DataFoods(FoodsSearchRoute(
                             DecodeQuery(encodeURIComponent(earlier[k])),
                             Nominal(earlier[k]).usda)))} :
            /\ homeResults' = foods
            /\ searchHistory' = IF Len(foods) > 0
                                THEN saveToHistory(searchHistory, earlier[k], searches)
                                ELSE searchHistory
       /\ earlier' = [j \in 1..(Len(earlier) - 1) |->
                        IF j < k THEN earlier[j] ELSE earlier[j + 1]]
  /\ loading' = FALSE
  /\ UNCHANGED <<mealItems, calcVars, showLoginModal, isLoggedIn, calculatorHistory,
                 callVars, fetchCount, alertMsg, clicks, existingHistory, other, userId,
                 owners, historyPage, location, farVars, expandedItems, cachedResults,
                 loadingItems, flights, fetched, localStorage, warning, searchTerm, searches, faults>>

\* searches started with the Enter key, one after or during another
SpecOvertake ==
  InitWith({<<MealItem(1, [foodName |-> <<>>, amountGrams |-> <<>>])>>})
    /\ [][handleKeyDown \/ SearchArrives \/ SearchFails \/ EarlierArrives]_vars

\* a visitor with one row on the Calculator page and the Home page at hand
InitBrowse == InitWith({m \in Meals : Len(m) = 1})

NextBrowse ==
  \/ handleSearch
  \/ SearchArrives
  \/ SearchFails
  \/ handleCalculateNutrients
  \/ NominalResponse
  \/ closeLoginModal

SpecBrowse == InitBrowse /\ [][NextBrowse]_vars

(***************************************************************************)
(* Two Calculator pages open on the same client.  Each page is a browsing  *)
(* context of its own with its own component state; localStorage is the    *)
(* one store both read and write.  A page's handler runs without           *)
(* interruption by its own page only: between one page's getItem and its   *)
(* setItem the other page may run, as Web Storage gives no lock across     *)
(* browsing contexts.  The variables of the Calculator hold the page whose *)
(* code runs next, other holds the page that waits.                        *)
(***************************************************************************)
\* one row, naming a food with or without candidates
PageMeals == {m \in Meals : Len(m) = 1 /\ m[1].foodName \in {sPisang, sZz}}

\* the state of the page that runs
ThisPage ==
  [mealItems |-> mealItems, calculatedResults |-> calculatedResults,
   totalNutrients |-> totalNutrients, calculating |-> calculating,
   showLoginModal |-> showLoginModal, isLoggedIn |-> isLoggedIn, pc |-> pc,
   validItems |-> validItems, results |-> results, nutrientTotals |-> nutrientTotals,
   pending |-> pending, responses |-> responses, alertMsg |-> alertMsg,
   clicks |-> clicks, existingHistory |-> existingHistory]

\* a freshly mounted page with one row typed in
FreshPage(meal) ==
  [mealItems |-> meal, calculatedResults |-> <<>>, totalNutrients |-> <<>>,
   calculating |-> FALSE, showLoginModal |-> FALSE, isLoggedIn |-> TRUE, pc |-> "idle",
   validItems |-> <<>>, results |-> <<>>, nutrientTotals |-> ZeroTotals,
   pending |-> <<>>, responses |-> <<>>, alertMsg |-> "none", clicks |-> 0,
   existingHistory |-> <<>>]

\* a logged-in user with two Calculator pages open
InitPages ==
  /\ \E meal \in PageMeals :
       /\ mealItems = meal
       /\ calculatedResults = FreshPage(meal).calculatedResults
       /\ totalNutrients = FreshPage(meal).totalNutrients
       /\ calculating = FreshPage(meal).calculating
       /\ showLoginModal = FreshPage(meal).showLoginModal
       /\ isLoggedIn = FreshPage(meal).isLoggedIn
       /\ pc = FreshPage(meal).pc
       /\ validItems = FreshPage(meal).validItems
       /\ results = FreshPage(meal).results
       /\ nutrientTotals = FreshPage(meal).nutrientTotals
       /\ pending = FreshPage(meal).pending
       /\ responses = FreshPage(meal).responses
       /\ alertMsg = FreshPage(meal).alertMsg
       /\ clicks = FreshPage(meal).clicks
       /\ existingHistory = FreshPage(meal).existingHistory
  /\ other \in {FreshPage(meal) : meal \in PageMeals}
  /\ userId = "A"
  /\ calculatorHistory = <<>>
  /\ owners = <<>>
  /\ fetchCount = 0
  /\ faults = 0
  /\ searchHistory = <<>>
  /\ searchTerm = <<>>
  /\ loading = FALSE
  /\ homeResults = <<>>
  /\ searches = 0
  /\ historyPage = <<>>
  /\ location = "/calculator"
  /\ FarInit

\* the other page's code runs next
SwitchPage ==
  /\ other' = ThisPage
  /\ mealItems' = other.mealItems
  /\ calculatedResults' = other.calculatedResults
  /\ totalNutrients' = other.totalNutrients
  /\ calculating' = other.calculating
  /\ showLoginModal' = other.showLoginModal
  /\ isLoggedIn' = other.isLoggedIn
  /\ pc' = other.pc
  /\ validItems' = other.validItems
  /\ results' = other.results
  /\ nutrientTotals' = other.nutrientTotals
  /\ pending' = other.pending
  /\ responses' = other.responses
  /\ alertMsg' = other.alertMsg
  /\ clicks' = other.clicks
  /\ existingHistory' = other.existingHistory
  /\ UNCHANGED <<calculatorHistory, owners, fetchCount, faults, userId, siteVars>>

\* the loop body ran for the last item: totals, state, and saveCalculationToHistory
\* as far as localStorage.getItem
ResponseReadsHistory(out) ==
  /\ ~ClientThrows(out)
  /\ Len(results) + 1 = Len(validItems)
  /\ \E acc \in {LoopBody(out)} : \E roundedTotals \in {RoundTotals(acc.nutrientTotals)} :
         /\ calculatedResults' = acc.results
         /\ totalNutrients' = <<roundedTotals>>
  /\ existingHistory' = calculatorHistory
  /\ pc' = "save"
  /\ results' = <<>>
  /\ nutrientTotals' = ZeroTotals
  /\ pending' = <<>>
  /\ UNCHANGED <<mealItems, calculating, showLoginModal, isLoggedIn, calculatorHistory,
                 owners, validItems, fetchCount, alertMsg>>

\* the response to the request of the page that runs arrives
PageResponse ==
  /\ pc = "fetch"
  /\ \E out \in {Nominal(DecodeQuery(pending))} :
       /\ responses' = Append(responses, out)
       /\ \/ ResponseFails(out) /\ UNCHANGED existingHistory
          \/ ResponseContinues(out) /\ UNCHANGED existingHistory
          \/ ResponseReadsHistory(out)
  /\ UNCHANGED <<clicks, faults, other, userId, siteVars>>

\* saveCalculationToHistory from unshift to localStorage.setItem, then finally
StoreHistory ==
  /\ pc = "save"
  /\ calculatorHistory' = saveCalculationToHistory(existingHistory, isLoggedIn,
                                                   calculatedResults, totalNutrients[1],
                                                   clicks)
  /\ owners' = OwnersAfterSave(SubSeq(owners, 1, IF Len(existingHistory) < Len(owners)
                                                   THEN Len(existingHistory)
                                                   ELSE Len(owners)),
                               isLoggedIn, userId)
  /\ existingHistory' = <<>>
  /\ calculating' = FALSE
  /\ pc' = "idle"
  /\ UNCHANGED <<mealItems, calculatedResults, totalNutrients, showLoginModal, isLoggedIn,
                 validItems, results, nutrientTotals, pending, responses, fetchCount,
                 alertMsg, clicks, faults, other, userId, siteVars>>

NextPages ==
  \/ handleCalculateNutrients
  \/ PageResponse
  \/ StoreHistory
  \/ SwitchPage

SpecPages == InitPages /\ [][NextPages]_vars

(***************************************************************************)
(* Calculations over rows that may name the same food more than once.      *)
(***************************************************************************)
RepeatInputs == {r \in RowInputs : r.foodName \in {sPisang, sZz}}

MealsRepeat ==
  UNION { { [i \in 1..n |-> MealItem(i, rows[i])] : rows \in [1..n -> RepeatInputs] }
          : n \in 1..MaxRows }

InitRepeat == InitWith(MealsRepeat)

SpecRepeat == InitRepeat /\ [][Next]_vars

(***************************************************************************)
(* Sessions: users log in and out on one client and visit the Calculator   *)
(* and the History page.                                                   *)
(***************************************************************************)
Users == {"A", "B"}

\* Log Out leaves the favorite food in the store
handleLogoutKeepsFavorite ==
  /\ userId # "none"
  /\ pc = "idle"
  /\ userId' = "none"
  /\ localStorage' = [isLoggedIn |-> <<>>, userId |-> <<>>, loggedInEmail |-> <<>>,
                      favoriteFood |-> localStorage.favoriteFood]
  /\ location' = "/"
  /\ UNCHANGED <<mealItems, calcVars, showLoginModal, isLoggedIn, calculatorHistory,
                 callVars, fetchCount, alertMsg, clicks, faults, existingHistory, other,
                 owners, searchHistory, searchTerm, loading, homeResults, searches,
                 historyPage, farVars, expandedItems, cachedResults, loadingItems,
                 flights, fetched, earlier, warning>>

\* the Log Out button of the header
handleLogout ==
  /\ userId # "none"
  /\ pc = "idle"
  /\ userId' = "none"
  /\ localStorage' = [isLoggedIn |-> <<>>, userId |-> <<>>, loggedInEmail |-> <<>>,
                      favoriteFood |-> <<>>]
  /\ location' = "/"
  /\ UNCHANGED <<mealItems, calcVars, showLoginModal, isLoggedIn, calculatorHistory,
                 callVars, fetchCount, alertMsg, clicks, faults, existingHistory, other,
                 owners, searchHistory, searchTerm, loading, homeResults, searches,
                 historyPage, farVars, expandedItems, cachedResults, loadingItems,
                 flights, fetched, earlier, warning>>

\* the login form is submitted with both fields filled in: the server accepts
\* the credentials of user u, or it refuses them, or the request fails
handleSubmit ==
  /\ pc = "idle"
  /\ \/ \E u \in Users :
          /\ userId' = u
          /\ localStorage' = [isLoggedIn |-> <<"true">>, userId |-> <<Account(u).id>>,
                              loggedInEmail |-> <<Account(u).email>>,
                              favoriteFood |-> Account(u).favoriteFood]
          /\ warning' = ""
          /\ location' = "/home"
     \/ /\ warning' \in {"Invalid email or password", "Network error. Please try again."}
        /\ UNCHANGED <<userId, localStorage, location>>
  /\ UNCHANGED <<mealItems, calcVars, showLoginModal, isLoggedIn, calculatorHistory,
                 callVars, fetchCount, alertMsg, clicks, faults, existingHistory, other,
                 owners, searchHistory, searchTerm, loading, homeResults, searches,
                 historyPage, farVars, expandedItems, cachedResults, loadingItems,
                 flights, fetched, earlier>>

\* the Calculator page is opened and a row is typed in
MountCalculator ==
  /\ location \in {"/home", "/history"}
  /\ pc = "idle"
  /\ location' = "/calculator"
  /\ mealItems' \in PageMeals
  /\ calculatedResults' = <<>>
  /\ totalNutrients' = <<>>
  /\ calculating' = FALSE
  /\ showLoginModal' = FALSE
  /\ isLoggedIn' = (userId # "none")
  /\ validItems' = <<>>
  /\ responses' = <<>>
  /\ alertMsg' = "none"
  /\ UNCHANGED <<calculatorHistory, pc, results, nutrientTotals, pending, fetchCount,
                 clicks, faults, existingHistory, other, userId, owners, searchHistory,
                 searchTerm, loading, homeResults, searches, historyPage, farVars,
                 expandedItems, cachedResults, loadingItems,
                 flights, fetched, earlier, localStorage, warning>>

\* the History page is opened: its effect reads the login flag and, for a
\* logged-in visitor, the two stored histories
MountHistory ==
  /\ location \in {"/home", "/calculator"}
  /\ pc = "idle"
  /\ location' = "/history"
  /\ expandedItems' = {}
  /\ cachedResults' = {}
  /\ loadingItems' = {}
  /\ flights' = <<>>
  /\ historyPage' =
       IF userId = "none"
       THEN [isLoggedIn |-> FALSE, showLoginModal |-> TRUE,
             searchHistory |-> <<>>, calculatorHistory |-> <<>>]
       ELSE [isLoggedIn |-> TRUE, showLoginModal |-> FALSE,
             searchHistory |-> searchHistory, calculatorHistory |-> calculatorHistory]
  /\ UNCHANGED <<mealItems, calcVars, showLoginModal, isLoggedIn, calculatorHistory,
                 callVars, fetchCount, alertMsg, clicks, faults, existingHistory, other,
                 userId, owners, searchHistory, searchTerm, loading, homeResults, searches,
                 farVars, fetched, earlier, localStorage, warning>>

\* a click on Calculate while the Calculator page is on display
CalculatorClick ==
  /\ location = "/calculator"
  /\ handleCalculateNutrients

InitSession == InitWith(PageMeals)

NextSession ==
  \/ CalculatorClick
  \/ NominalResponse
  \/ handleLogout
  \/ handleSubmit
  \/ MountCalculator
  \/ MountHistory

SpecSession == InitSession /\ [][NextSession]_vars

(***************************************************************************)
(* The two history collections under repeated saves: the saving functions  *)
(* applied to the stored collections, one save after the other.            *)
(***************************************************************************)
InitHistory ==
  /\ Init
  /\ userId = "A"
  /\ Len(mealItems) = 1

\* saveCalculationToHistory is called with the results of a calculation
SaveCalculation ==
  /\ clicks < MaxSaves
  /\ clicks' = clicks + 1
  /\ calculatorHistory' = saveCalculationToHistory(calculatorHistory, isLoggedIn,
                                                   <<NotFoundItem(mealItems[1])>>,
                                                   ZeroNutrients, clicks)
  /\ owners' = OwnersAfterSave(owners, isLoggedIn, userId)
  /\ UNCHANGED <<mealItems, calcVars, showLoginModal, isLoggedIn, callVars, fetchCount,
                 alertMsg, faults, restVars>>

\* saveToHistory is called with a search term
SaveSearch ==
  /\ searches < MaxSaves
  /\ searches' = searches + 1
  /\ searchHistory' = saveToHistory(searchHistory, mealItems[1].foodName, searches)
  /\ UNCHANGED <<mealItems, calcVars, showLoginModal, isLoggedIn, calculatorHistory,
                 callVars, fetchCount, alertMsg, clicks, faults, existingHistory, other,
                 userId, owners, searchTerm, loading, homeResults, historyPage,
                 location, farVars, expandedItems, cachedResults, loadingItems,
                 flights, fetched, earlier, localStorage, warning>>

NextHistory == SaveCalculation \/ SaveSearch

SpecHistory == InitHistory /\ [][NextHistory]_vars

(***************************************************************************)
(* The accordion of the History page.  A click's handler runs up to its    *)
(* fetch; what follows the await runs when the response arrives, with the  *)
(* cachedResults and loadingItems of the render in which the click was     *)
(* made.                                                                   *)
(***************************************************************************)
\* a search history item is clicked
handleHistoryItemClick ==
  /\ location = "/history"
  /\ historyPage.isLoggedIn
  /\ \E index \in 1..Len(historyPage.searchHistory) :
       \E foodName \in {historyPage.searchHistory[index].foodName} :
         IF index \in expandedItems
         THEN /\ expandedItems' = expandedItems \ {index}
              /\ UNCHANGED <<loadingItems, flights, fetched>>
         ELSE IF \E r \in cachedResults : r.foodName = foodName
         THEN /\ expandedItems' = expandedItems \cup {index}
              /\ UNCHANGED <<loadingItems, flights, fetched>>
         ELSE /\ Len(fetched) < MaxFetches
              /\ loadingItems' = loadingItems \cup {index}
              /\ expandedItems' = expandedItems \cup {index}
              /\ flights' = Append(flights, [index |-> index, foodName |-> foodName,
                                             cachedResults |-> cachedResults,
                                             loadingItems |-> loadingItems])
              /\ fetched' = Append(fetched, foodName)
  /\ UNCHANGED <<pageVars, farVars, cachedResults, earlier, localStorage, warning>>

\* the response to one of the fetches arrives (a food, no food, or a failure)
\* and its handler goes on: the result is put into the cache, the index is
\* taken out of the loading set
FetchSettles ==
  /\ flights # <<>>
  /\ \E k \in 1..Len(flights) :
       /\ \E error \in {"", "No results found for this food item.",
                         "Failed to fetch food data. Please try again."} :
            cachedResults' =
              {r \in flights[k].cachedResults : r.foodName # flights[k].foodName}
                \cup {[foodName |-> flights[k].foodName, error |-> error]}
       /\ loadingItems' = flights[k].loadingItems \ {flights[k].index}
       /\ flights' = [j \in 1..(Len(flights) - 1) |->
                        IF j < k THEN flights[j] ELSE flights[j + 1]]
  /\ UNCHANGED <<pageVars, farVars, expandedItems, fetched, earlier, localStorage, warning>>

\* a visitor searches on the Home page, opens the History page and clicks items
SpecAccordion ==
  InitWith({<<MealItem(1, [foodName |-> <<>>, amountGrams |-> <<>>])>>})
    /\ [][handleSearch \/ SearchArrives \/ MountHistory \/ handleHistoryItemClick
           \/ FetchSettles]_vars

\* every fetch is answered or fails in the end
SpecAccordionLive == SpecAccordion /\ WF_flights(FetchSettles)

(***************************************************************************)
(* The server: the users and help_messages tables and the routes that read *)
(* and write them.  A user id is the row's number; a bcrypt hash is the    *)
(* password behind a marker; null is <<>>.                                 *)
(***************************************************************************)
Emails == {"a@example.com", "b@example.com"}

\* a password the signup schema accepts and one it refuses (fewer than 6 characters)
Passwords == {<<"s", "e", "c", "r", "e", "t">>, <<"a", "b", "c">>}

\* bcrypt.hash
Hash(password) == <<"$2b$10$">> \o password

\* the password typed into the Admin page's form
ADMIN_PASSWORD == "admin123"

\* storage.getUser: <<>> when no row has the id
getUser(id) == SelectSeq(users, LAMBDA u : <<u.id>> = id)

\* storage.getUserByEmail
getUserByEmail(email) == SelectSeq(users, LAMBDA u : u.email = email)

\* the fields of a user the routes put into a response
SafeUser(u) == [id |-> u.id, email |-> u.email, favoriteFood |-> u.favoriteFood]

\* the whole rows are sent
UsersRouteSendsRows(header) ==
  IF header = <<>> THEN [status |-> 401, error |-> "Authentication required", data |-> <<>>]
  ELSE IF getUser(header) = <<>> THEN [status |-> 401, error |-> "Invalid user", data |-> <<>>]
  ELSE [status |-> 200, error |-> "", data |-> users]

\* any header is taken for a user's id
UsersRouteTrustsHeader(header) ==
  IF header = <<>> THEN [status |-> 401, error |-> "Authentication required", data |-> <<>>]
  ELSE [status |-> 200, error |-> "",
        data |-> [i \in 1..Len(users) |-> SafeUser(users[i])]]

\* GET /api/users with the x-user-id header given (<<>> when it is absent)
UsersRoute(header) ==
  IF header = <<>> THEN [status |-> 401, error |-> "Authentication required", data |-> <<>>]
  ELSE IF getUser(header) = <<>> THEN [status |-> 401, error |-> "Invalid user", data |-> <<>>]
  ELSE [status |-> 200, error |-> "",
        data |-> [i \in 1..Len(users) |-> SafeUser(users[i])]]

\* GET /api/help-messages
HelpMessagesRoute(header) ==
  IF header = <<>> THEN [status |-> 401, error |-> "Authentication required", data |-> <<>>]
  ELSE IF getUser(header) = <<>> THEN [status |-> 401, error |-> "Invalid user", data |-> <<>>]
  ELSE [status |-> 200, error |-> "", data |-> helpMessages]

\* POST /api/login
LoginRoute(email, password) ==
  IF getUserByEmail(email) = <<>>
  THEN [status |-> 401, error |-> "Invalid email or password", data |-> <<>>]
  ELSE IF Hash(password) # getUserByEmail(email)[1].passwordHash
  THEN [status |-> 401, error |-> "Invalid email or password", data |-> <<>>]
  ELSE [status |-> 200, error |-> "", data |-> <<SafeUser(getUserByEmail(email)[1])>>]

\* POST /api/signup up to the insert: the body is validated and the email looked up
SignupChecks ==
  /\ Len(signups) + Len(users) < MaxSignups
  /\ \E email \in Emails, password \in Passwords, favoriteFood \in {<<>>, sPisang} :
       IF Len(password) < 6
       THEN /\ reply' = [route |-> "signup", status |-> 400, error |-> "validation",
                         data |-> <<>>, typed |-> "none", header |-> <<>>, email |-> email]
            /\ UNCHANGED signups
       ELSE IF getUserByEmail(email) # <<>>
       THEN /\ reply' = [route |-> "signup", status |-> 400,
                         error |-> "Email already registered",
                         data |-> <<>>, typed |-> "none", header |-> <<>>, email |-> email]
            /\ UNCHANGED signups
       ELSE /\ signups' = Append(signups, [email |-> email, password |-> password,
                                           favoriteFood |-> favoriteFood])
            /\ UNCHANGED reply
  /\ UNCHANGED <<pageVars, expandedItems, cachedResults, loadingItems,
                 flights, fetched, earlier, localStorage, warning, users, helpMessages>>

\* POST /api/signup from storage.createUser on, for one of the requests that
\* passed the checks: the insert fails on the unique email column when a row
\* with the email exists by now, and the route's catch answers
SignupInserts ==
  /\ signups # <<>>
  /\ \E i \in 1..Len(signups) :
       /\ IF getUserByEmail(signups[i].email) # <<>>
          THEN /\ reply' = [route |-> "signup", status |-> 500,
                            error |-> "Failed to create account",
                            data |-> <<>>, typed |-> "none", header |-> <<>>, email |-> signups[i].email]
               /\ UNCHANGED users
          ELSE /\ users' = Append(users, [id |-> Len(users) + 1,
                                          email |-> signups[i].email,
                                          passwordHash |-> Hash(signups[i].password),
                                          favoriteFood |-> signups[i].favoriteFood])
               /\ reply' = [route |-> "signup", status |-> 200, error |-> "",
                            data |-> <<SafeUser(users'[Len(users')])>>,
                            typed |-> "none", header |-> <<>>, email |-> signups[i].email]
       /\ signups' = [k \in 1..(Len(signups) - 1) |->
                        IF k < i THEN signups[k] ELSE signups[k + 1]]
  /\ UNCHANGED <<pageVars, expandedItems, cachedResults, loadingItems,
                 flights, fetched, earlier, localStorage, warning, helpMessages>>

\* a POST /api/login request is answered
Login ==
  /\ \E email \in Emails, password \in Passwords :
       reply' = [route |-> "login", status |-> LoginRoute(email, password).status,
                 error |-> LoginRoute(email, password).error,
                 data |-> LoginRoute(email, password).data,
                 typed |-> "none", header |-> <<>>, email |-> email]
  /\ UNCHANGED <<pageVars, expandedItems, cachedResults, loadingItems,
                 flights, fetched, earlier, localStorage, warning, users, helpMessages, signups>>

\* POST /api/help-messages: storage.createHelpMessage; the list is read newest first
PostHelpMessage ==
  /\ Len(helpMessages) < MaxPosts
  /\ \E email \in Emails :
       /\ helpMessages' = <<[id |-> Len(helpMessages) + 1, name |-> "visitor",
                             email |-> email, message |-> "help"]>> \o helpMessages
       /\ reply' = [route |-> "help", status |-> 200, error |-> "", data |-> <<>>,
                    typed |-> "none", header |-> <<>>, email |-> email]
  /\ UNCHANGED <<pageVars, expandedItems, cachedResults, loadingItems,
                 flights, fetched, earlier, localStorage, warning, users, signups>>

\* a GET /api/users or GET /api/help-messages request is answered.  The Admin
\* page sends one only after ADMIN_PASSWORD was typed into its form and with
\* the stored user id as the header; any other client sends what it likes.
AdminFetch ==
  /\ \E route \in {"users", "messages"},
        header \in {<<>>} \cup {<<i>> : i \in 1..(MaxSignups + 1)},
        typed \in {ADMIN_PASSWORD, "none"}, via \in {"page", "direct"} :
       /\ via = "page" => (typed = ADMIN_PASSWORD /\ header # <<>>)
       /\ \E r \in {IF route = "users" THEN UsersRoute(header)
                                        ELSE HelpMessagesRoute(header)} :
            reply' = [route |-> route, status |-> r.status, error |-> r.error,
                      data |-> r.data, typed |-> typed, header |-> header,
                      email |-> ""]
  /\ UNCHANGED <<pageVars, expandedItems, cachedResults, loadingItems,
                 flights, fetched, earlier, localStorage, warning, users, helpMessages, signups>>

\* requests reaching a server started on empty tables, in any order
SpecServer ==
  InitWith({<<MealItem(1, [foodName |-> <<>>, amountGrams |-> <<>>])>>})
    /\ [][SignupChecks \/ SignupInserts \/ Login \/ PostHelpMessage
           \/ AdminFetch]_vars

(***************************************************************************)
(* Properties of the Meal Aggregator and the Nutrient Resolver.            *)
(***************************************************************************)
\* the entries the current or the last call has produced so far
Entries == IF pc = "fetch" THEN results ELSE calculatedResults

\* a call over valid items has run to its end
CallEnded == pc = "idle" /\ responses # <<>>

\* v * grams / 100 rounded half-up to one decimal, in tenths, computed exactly:
\* v is h hundredths and grams is g.n / g.p
HalfUpTenths(h, g) == (2 * h * g.n + 1000 * g.p) \div (2000 * g.p)

RECURSIVE SumComputed(_, _)
SumComputed(entries, f) ==
  IF entries = <<>> THEN 0
  ELSE entries[1].computedNutrients[f] + SumComputed(Tl(entries), f)

\* C1: every nutrient of a calculated item with a positive gram amount equals
\* its per-100g value times grams / 100, rounded half-up to one decimal place.
C1_ScaledHalfUp ==
  \A i \in 1..Len(Entries) : \A f \in NutrientFields :
    Entries[i].amountGrams.n > 0 =>
      Entries[i].computedNutrients[f] =
        HalfUpTenths(Entries[i].nutrientsPer100g[f], Entries[i].amountGrams)

\* C2: each reported total is the sum of the rounded per-item values of the
\* calculated list (not-found entries counting 0), rounded once more to one
\* decimal place; a sum of tenths is its own rounding.
C2_TotalsSumRoundedItems ==
  totalNutrients # <<>> =>
    \A f \in NutrientFields :
      totalNutrients[1][f] = SumComputed(calculatedResults, f)

\* two or more found items and a not-found one were totalled
C2_Witness ==
  /\ totalNutrients # <<>>
  /\ Len(calculatedResults) = 3
  /\ Cardinality({i \in 1..3 : calculatedResults[i].computedNutrients["calories"] # 0}) = 2
  /\ totalNutrients[1]["calories"] # 0

\* C3: an item with a blank name or with a non-positive or non-numeric gram
\* amount never reaches the calculation: no lookup is made for it and no entry
\* is built from it.
C3_NonPositiveGramsDropped ==
  /\ \A i \in 1..Len(validItems) :
       /\ trim(validItems[i].foodName) # <<>>
       /\ ~isNaN(parseFloat(validItems[i].amountGrams))
       /\ parseFloat(validItems[i].amountGrams).n > 0
  /\ \A i \in 1..Len(Entries) : Entries[i].amountGrams.n > 0

\* C4: a click on Calculate by a logged-in user when no row is valid issues no
\* lookup request, never sets the calculating flag, leaves the displayed
\* results and totals as they were and appends nothing to the history.
C4_InvalidClickChangesNothing ==
  [][ (clicks' = clicks + 1 /\ isLoggedIn /\ Len(ValidItems(mealItems)) = 0) =>
        /\ fetchCount' = fetchCount
        /\ pc' = "idle"
        /\ ~calculating'
        /\ calculatedResults' = calculatedResults
        /\ totalNutrients' = totalNutrients
        /\ calculatorHistory' = calculatorHistory ]_vars

\* the rejected click came while the results of an earlier call were displayed
C4_Witness ==
  /\ alertMsg = "invalid"
  /\ Len(ValidItems(mealItems)) = 0
  /\ calculatedResults # <<>>
  /\ totalNutrients # <<>>
  /\ calculatorHistory # <<>>

\* the candidates a lookup handed to the client
Candidates(out) ==
  IF out.net = "ok" /\ out.usda.kind = "ok" /\ out.usda.hasFoods THEN out.usda.foods ELSE <<>>

\* the lookup succeeded and returned no candidate
NoCandidate(out) == out.net = "ok" /\ out.usda.kind = "ok" /\ Candidates(out) = <<>>

\* the server could not complete its USDA request (network error or non-success
\* status) and answers with a non-success status
ServerFailure(out) == out.net = "ok" /\ out.usda.kind \in {"neterr", "status"}

\* the client's request to the server failed: fetch rejects
RequestFailed(out) == out.net = "neterr"

\* the USDA body is malformed or empty (no foods list); the server's response is delivered
BodyWithoutFoods(out) ==
  out.net = "ok" /\ (out.usda.kind = "malformed" \/ (out.usda.kind = "ok" /\ ~out.usda.hasFoods))

\* e is the zero-nutrient not-found entry of item
IsNotFoundEntry(e, item) ==
  /\ e.foodName = item.foodName \o <<" ", "(", "n", "o", "t", " ", "f", "o", "u", "n", "d", ")">>
  /\ e.amountGrams = parseFloat(item.amountGrams)
  /\ \A f \in NutrientFields : e.nutrientsPer100g[f] = 0 /\ e.computedNutrients[f] = 0

\* the call ended with one entry per valid item and with totals
ResultProduced ==
  /\ Len(calculatedResults) = Len(validItems)
  /\ totalNutrients # <<>>
  /\ ~calculating

\* the call ended with an error alert and nothing calculated
Aborted ==
  /\ calculatedResults = <<>>
  /\ totalNutrients = <<>>
  /\ alertMsg = "error"
  /\ ~calculating

RECURSIVE SumFound(_, _, _)
SumFound(entries, outs, f) ==
  IF entries = <<>> THEN 0
  ELSE (IF Candidates(outs[1]) # <<>> THEN entries[1].computedNutrients[f] ELSE 0)
         + SumFound(Tl(entries), Tl(outs), f)

\* C5: an item whose lookup succeeds without a candidate appears in the
\* calculated list under its name with the not-found suffix, its requested
\* grams and all nutrients zero; the other items are still processed and the
\* totals are those of the found items.
C5_NotFoundItemKept ==
  /\ \A i \in 1..Len(Entries) :
       NoCandidate(responses[i]) => IsNotFoundEntry(Entries[i], validItems[i])
  /\ (CallEnded /\ \A i \in 1..Len(responses) :
                     responses[i].net = "ok" /\ responses[i].usda.kind = "ok") =>
       /\ ResultProduced
       /\ \A f \in NutrientFields :
            totalNutrients[1][f] = SumFound(calculatedResults, responses, f)

\* three items, the second without a candidate, the first and third found
C5_Witness ==
  /\ CallEnded
  /\ Len(calculatedResults) = 3
  /\ NoCandidate(responses[2])
  /\ Candidates(responses[1]) # <<>> /\ Candidates(responses[3]) # <<>>
  /\ IsNotFoundEntry(calculatedResults[2], validItems[2])
  /\ totalNutrients # <<>>


\* C6: a lookup that cannot be completed, because of a network error or a
\* non-success status, degrades only its item to the not-found entry; the call
\* still ends with one entry per valid item and with totals.
C6_FailedLookupDegradesItem ==
  CallEnded =>
    /\ ResultProduced
    /\ \A i \in 1..Len(responses) :
         (ServerFailure(responses[i]) \/ RequestFailed(responses[i])) =>
           IsNotFoundEntry(calculatedResults[i], validItems[i])

HasText(str) == \E j \in 1..Len(str) : ~IsSpace(str[j])

Kept(row) ==
  HasText(row.foodName) /\ HasText(row.amountGrams) /\ ~parseFloat(row.amountGrams).nan

\* the i-th smallest element of a set of indices
IthOf(K, i) == CHOOSE k \in K : Cardinality({j \in K : j < k}) = i - 1

\* entry e was built from item and from the answer out to its own lookup
DerivedFrom(e, item, out) ==
  /\ e.amountGrams = parseFloat(item.amountGrams)
  /\ \/ IsNotFoundEntry(e, item)
     \/ \E k \in 1..Len(Candidates(out)) : e.foodName = Candidates(out)[k].description

\* C8: the calculated list holds one entry per valid row, in the order of the
\* rows: the i-th entry is built from the i-th row the filter keeps and from
\* that row's lookup, whatever mix of found and not-found entries precedes it.
C8_OneEntryPerValidItemInOrder ==
  (pc = "fetch" \/ responses # <<>>) =>
    LET K == {k \in 1..Len(mealItems) : Kept(mealItems[k])}
    IN  /\ Len(validItems) = Cardinality(K)
        /\ \A i \in 1..Len(validItems) : validItems[i] = mealItems[IthOf(K, i)]
        /\ pc = "fetch" => Len(results) = Len(responses)
        /\ (CallEnded /\ \A i \in 1..Len(responses) : ~RequestFailed(responses[i])) =>
             Len(calculatedResults) = Len(validItems)
        /\ \A i \in 1..Len(Entries) : DerivedFrom(Entries[i], validItems[i], responses[i])

\* three rows, the second dropped by the filter, the first not found, the
\* third found: two entries in the order of the rows
C8_Witness ==
  /\ CallEnded
  /\ Len(mealItems) = 3 /\ ~Kept(mealItems[2])
  /\ Len(calculatedResults) = 2
  /\ IsNotFoundEntry(calculatedResults[1], mealItems[1])
  /\ Candidates(responses[2]) # <<>>
  /\ calculatedResults[2].amountGrams = parseFloat(mealItems[3].amountGrams)

Perms(n) == {p \in [1..n -> 1..n] : \A i, j \in 1..n : p[i] = p[j] => i = j}

\* the running totals after the entries were added in the given order
RECURSIVE FoldTotals(_, _, _)
FoldTotals(entries, order, acc) ==
  IF order = <<>> THEN acc
  ELSE CHOOSE r \in
         { FoldTotals(entries, Tl(order), a)
             : a \in {Accumulate(acc, entries[order[1]].computedNutrients)} } : TRUE

\* C9: the six totals do not depend on the order of the items: totalling the
\* calculated items in any order gives the totals reported.
C9_TotalsOrderIndependent ==
  totalNutrients # <<>> =>
    \A p \in Perms(Len(calculatedResults)) :
      RoundTotals(FoldTotals(calculatedResults, p, ZeroTotals)) = totalNutrients[1]

\* three items, at least two of them with nutrients, were totalled
C9_Witness ==
  /\ totalNutrients # <<>>
  /\ Len(calculatedResults) = 3
  /\ \E i, j \in 1..3 :
       /\ i # j
       /\ calculatedResults[i].computedNutrients["protein"] # 0
       /\ calculatedResults[j].computedNutrients["protein"] # 0
       /\ calculatedResults[i].computedNutrients # calculatedResults[j].computedNutrients

\* desc contains q when case is ignored
Matches(desc, q) ==
  \E o \in 0..(Len(desc) - Len(q)) :
    \A j \in 1..Len(q) : LowerChar(desc[o + j]) = LowerChar(q[j])

\* entry e shows candidate c: its description and its energy per 100 g
Shows(e, c) ==
  /\ e.foodName = c.description
  /\ \E n \in 1..Len(c.foodNutrients) :
       /\ c.foodNutrients[n].nutrientName = "Energy"
       /\ c.foodNutrients[n].value = e.nutrientsPer100g["calories"]

\* C10: among the candidates returned for a food name the resolver takes the
\* first whose description contains the query, case ignored; if none contains
\* it, the first candidate; if there is no candidate, the item is not found.
C10_FirstMatchElseFirstElseNotFound ==
  \A i \in 1..Len(Entries) :
    responses[i].net = "ok" =>
      LET fs == Candidates(responses[i])
          M == {k \in 1..Len(fs) : Matches(fs[k].description, validItems[i].foodName)}
      IN  IF fs = <<>> THEN IsNotFoundEntry(Entries[i], validItems[i])
          ELSE IF M # {} THEN Shows(Entries[i], fs[SetMin(M)])
          ELSE Shows(Entries[i], fs[1])

\* one call resolved a name by its second candidate, the first not containing
\* it, and another name by the fallback to the first candidate
C10_Witness ==
  /\ CallEnded
  /\ \E i \in 1..Len(calculatedResults) :
       /\ Len(Candidates(responses[i])) = 3
       /\ ~Matches(Candidates(responses[i])[1].description, validItems[i].foodName)
       /\ Matches(Candidates(responses[i])[3].description, validItems[i].foodName)
       /\ calculatedResults[i].foodName = Candidates(responses[i])[2].description
  /\ \E i \in 1..Len(calculatedResults) :
       /\ Len(Candidates(responses[i])) = 1
       /\ ~Matches(Candidates(responses[i])[1].description, validItems[i].foodName)
       /\ calculatedResults[i].foodName = Candidates(responses[i])[1].description

\* a nutrient set: the six fields, each a number
IsNutrientSet(n) ==
  /\ DOMAIN n = {"calories", "protein", "fat", "carbs", "sugar", "fiber"}
  /\ \A f \in DOMAIN n : n[f] \in Int

\* candidate c lists the nutrient the field f is read from
Lists(c, f) ==
  \E k \in 1..Len(c.foodNutrients) : c.foodNutrients[k].nutrientName = UsdaName(f)

\* C11: the per-100g and computed nutrients of every entry, found or not
\* found, and the totals have all six fields as numbers; a nutrient the chosen
\* candidate does not list is 0.
C11_SixFieldsAlwaysNumbers ==
  /\ \A i \in 1..Len(Entries) :
       /\ IsNutrientSet(Entries[i].nutrientsPer100g)
       /\ IsNutrientSet(Entries[i].computedNutrients)
       /\ \A k \in 1..Len(Candidates(responses[i])) :
            Candidates(responses[i])[k].description = Entries[i].foodName =>
              \A f \in NutrientFields :
                ~Lists(Candidates(responses[i])[k], f) =>
                  /\ Entries[i].nutrientsPer100g[f] = 0
                  /\ Entries[i].computedNutrients[f] = 0
  /\ totalNutrients # <<>> => IsNutrientSet(totalNutrients[1])

\* a call with a not-found entry and a found entry whose candidate lists no
\* fiber has ended with totals
C11_Witness ==
  /\ CallEnded /\ totalNutrients # <<>>
  /\ \E i \in 1..Len(calculatedResults) : IsNotFoundEntry(calculatedResults[i], validItems[i])
  /\ \E i \in 1..Len(calculatedResults) :
       \E k \in 1..Len(Candidates(responses[i])) :
         /\ Candidates(responses[i])[k].description = calculatedResults[i].foodName
         /\ ~Lists(Candidates(responses[i])[k], "fiber")
         /\ Lists(Candidates(responses[i])[k], "calories")
         /\ calculatedResults[i].nutrientsPer100g["fiber"] = 0
         /\ calculatedResults[i].nutrientsPer100g["calories"] # 0

\* timestamps strictly decrease from the first entry on
NewestFirst(h) == \A i \in 1..Len(h) - 1 : h[i].timestamp > h[i + 1].timestamp

\* new is old after one save at time t: the new entry first, the old ones behind
\* it in their order, and the oldest one gone when old was full
SavedInto(old, new, t) ==
  /\ Len(new) = (IF Len(old) < HistoryCap THEN Len(old) + 1 ELSE HistoryCap)
  /\ new[1].timestamp = t
  /\ \A i \in 2..Len(new) : new[i] = old[i - 1]
  /\ Len(old) = HistoryCap => \A i \in 1..Len(new) : new[i] # old[HistoryCap]

\* C12: after any sequence of saves the calculator history and the search
\* history hold at most 20 entries, newest first; a save puts the new entry
\* first and keeps the others in order, and a save into a collection of 20
\* leaves 20, with the oldest entry evicted.
C12_HistoryKeepsNewestTwenty ==
  [][ /\ Len(calculatorHistory') <= 20
      /\ Len(searchHistory') <= 20
      /\ NewestFirst(calculatorHistory')
      /\ NewestFirst(searchHistory')
      /\ clicks' # clicks => SavedInto(calculatorHistory, calculatorHistory', clicks)
      /\ searches' # searches => SavedInto(searchHistory, searchHistory', searches) ]_vars

C12_Witness ==
  /\ clicks = 21
  /\ Len(calculatorHistory) = 20
  /\ calculatorHistory[1].timestamp = 20
  /\ calculatorHistory[20].timestamp = 1
  /\ searches = 21
  /\ Len(searchHistory) = 20
  /\ searchHistory[1].timestamp = 20
  /\ searchHistory[20].timestamp = 1

\* the name the i-th item of the call resolved to: a description among the
\* candidates that came back for it, or the typed name marked as not found
IsResolvedName(name, i) ==
  IF Candidates(responses[i]) = <<>>
  THEN name = validItems[i].foodName \o NotFoundSuffix
  ELSE \E k \in 1..Len(Candidates(responses[i])) :
         name = Candidates(responses[i])[k].description

C14_SameInputsSameOutcome ==
  /\ \A i, j \in 1..Len(calculatorHistory) :
       /\ calculatorHistory[i].items = calculatorHistory[j].items
       /\ calculatorHistory[i].totalNutrients = calculatorHistory[j].totalNutrients
  /\ totalNutrients # <<>> =>
       \A i \in 1..Len(calculatorHistory) :
         /\ calculatorHistory[i].totalNutrients = totalNutrients[1]
         /\ Len(calculatorHistory[i].items) = Len(calculatedResults)
         /\ \A k \in 1..Len(calculatedResults) :
              /\ calculatorHistory[i].items[k].foodName = calculatedResults[k].foodName
              /\ calculatorHistory[i].items[k].grams = calculatedResults[k].amountGrams
              /\ calculatorHistory[i].items[k].nutrients = calculatedResults[k].computedNutrients

\* the same rows were calculated twice, with totals that are not zero
C14_Witness ==
  /\ pc = "idle"
  /\ clicks = 2
  /\ Len(calculatorHistory) = 2
  /\ calculatorHistory[1].timestamp # calculatorHistory[2].timestamp
  /\ totalNutrients # <<>>
  /\ totalNutrients[1]["calories"] > 0
  /\ Len(calculatedResults) >= 2

\* C15: a call issues one lookup when it starts and one each time a response
\* lets it go on, and none otherwise; the request in flight is always for the
\* first valid item that has no response yet, whatever its name and whatever
\* came back before, so no item is looked up twice and none is served from an
\* earlier result; a call that ends with totals has had one response per valid
\* item.
C15_OneLookupPerValidItem ==
  [][ /\ fetchCount' = fetchCount +
           (IF pc' = "fetch" /\ (pc = "idle" \/ responses' # responses) THEN 1 ELSE 0)
      /\ pc' = "fetch" =>
           /\ Len(responses') < Len(validItems')
           /\ pending' = encodeURIComponent(validItems'[Len(responses') + 1].foodName)
      /\ (pc = "fetch" /\ responses' # responses) =>
           /\ Len(responses') = Len(responses) + 1
           /\ validItems' = validItems
      /\ (pc = "fetch" /\ pc' = "idle" /\ totalNutrients' # <<>>) =>
           Len(responses') = Len(validItems') ]_vars

\* two calls over three rows, two of them naming the same food, ended with
\* totals after six lookups, one of which came back empty
C15_Witness ==
  /\ pc = "idle"
  /\ clicks = 2
  /\ totalNutrients # <<>>
  /\ Len(calculatorHistory) = 2
  /\ Len(validItems) = 3
  /\ validItems[1].foodName = validItems[3].foodName
  /\ \E i \in 1..3 : NoCandidate(responses[i])
  /\ fetchCount = 6

\* C16: a click on Calculate by a caller who is not logged in issues no lookup,
\* starts no call, leaves the calculated results, the totals and the calculator
\* history as they were, and opens the login modal.
C16_GuestClickOnlyOpensModal ==
  [][ (~isLoggedIn /\ clicks' # clicks) =>
        /\ fetchCount' = fetchCount
        /\ pc' = "idle"
        /\ UNCHANGED <<calculatedResults, totalNutrients, calculating>>
        /\ calculatorHistory' = calculatorHistory
        /\ alertMsg' = alertMsg
        /\ showLoginModal' ]_vars

\* a guest with a valid row clicked twice, closing the modal in between
C16_Witness ==
  /\ ~isLoggedIn
  /\ Len(ValidItems(mealItems)) > 0
  /\ clicks = 2
  /\ showLoginModal
  /\ fetchCount = 0
  /\ calculatorHistory = <<>>

\* C17: while nobody is logged in, no step modifies the stored search history
\* or the stored calculator history.
C17_GuestLeavesNoTrace ==
  [][ userId = "none" =>
        /\ searchHistory' = searchHistory
        /\ calculatorHistory' = calculatorHistory ]_vars

\* C18: when every request in flight is eventually answered, a call that has
\* set the calculating flag ends: the flag returns to false, with totals on the
\* success path and with the error alert on the failure path.
C18_CalculatingEventuallyFalse ==
  calculating ~> (~calculating /\ pc = "idle" /\ (totalNutrients # <<>> \/ alertMsg = "error"))

\* a call ended on the failure path after one of its lookups had succeeded
C18_Witness ==
  /\ ~calculating
  /\ pc = "idle"
  /\ alertMsg = "error"
  /\ Len(responses) = 2
  /\ ClientThrows(responses[2])
  /\ totalNutrients = <<>>

\* what a call over the given rows produces by itself, every lookup answered
\* with what USDA holds
RECURSIVE Aggregate(_, _)
Aggregate(items, acc) ==
  IF items = <<>> THEN acc
  ELSE CHOOSE r \in
         { Aggregate(Tl(items), a)
             : a \in {ProcessItem(items[1],
                                  DataFoods(FoodsSearchRoute(items[1].foodName,
                                                             NominalUsda(items[1].foodName))),
                                  acc)} } : TRUE

\* page p displays nothing, or what a call over its own rows produces by itself
ShowsOwnOutcome(p) ==
  p.totalNutrients # <<>> =>
    \E a \in {Aggregate(ValidItems(p.mealItems),
                         [results |-> <<>>, nutrientTotals |-> ZeroTotals])} :
      /\ p.calculatedResults = a.results
      /\ p.totalNutrients[1] = RoundTotals(a.nutrientTotals)

\* C19: with two Calculator pages open on one client, what each page displays is
\* what its own call produces by itself, and once both pages are idle the
\* history holds one entry for every call completed on either page.
C19_ConcurrentCallsIndependent ==
  /\ ShowsOwnOutcome(ThisPage)
  /\ ShowsOwnOutcome(other)
  /\ (pc = "idle" /\ other.pc = "idle") =>
        Len(calculatorHistory) = clicks + other.clicks

\* C20: the History page lists to the user who is logged in only entries that
\* were written while that same user was logged in.
C20_HistoryListsOwnEntriesOnly ==
  (location = "/history" /\ historyPage.isLoggedIn) =>
    /\ Len(historyPage.calculatorHistory) = Len(owners)
    /\ \A i \in 1..Len(owners) : owners[i] = userId

(***************************************************************************)
(* Properties of the server's routes.                                      *)
(***************************************************************************)
\* the last response carries the user list or the help messages
CarriesAdminData == reply.route \in {"users", "messages"} /\ reply.status = 200

\* C21: the user list and the help messages are answered only to a caller who
\* gave the correct admin password
C21_AdminDataNeedsAdminPassword ==
  CarriesAdminData => reply.typed = ADMIN_PASSWORD

\* no two rows of the users table have the same email
EmailsUnique ==
  \A i, j \in 1..Len(users) : users[i].email = users[j].email => i = j

\* the last response refuses a signup whose body was valid
SignupRefused ==
  reply.route = "signup" /\ reply.status # 200 /\ reply.error # "validation"

\* C22: a signup for an email that is already registered, also one that lost
\* the race against a concurrent signup for the same email, is answered with
\* 400 'Email already registered', and the table never holds an email twice
C22_DuplicateSignupRejectedWith400 ==
  /\ EmailsUnique
  /\ SignupRefused =>
       /\ reply.status = 400
       /\ reply.error = "Email already registered"

\* C23: no response carries a stored password hash; of a user the signup, login
\* and user-list responses carry id, email and favoriteFood and nothing else
C23_NoResponseCarriesPasswordHash ==
  \A i \in 1..Len(reply.data) :
    /\ "passwordHash" \notin DOMAIN reply.data[i]
    /\ reply.route \in {"signup", "login", "users"} =>
         DOMAIN reply.data[i] = {"id", "email", "favoriteFood"}

\* two accounts exist and the user list has been answered
C23_Witness ==
  /\ reply.route = "users"
  /\ reply.status = 200
  /\ Len(reply.data) = 2
  /\ \A i \in 1..2 : users[i].passwordHash # <<>>

\* C24: the two admin GET routes answer 401 without data when the x-user-id
\* header is absent or names no user, and answer the data only when it names
\* an existing user
C24_AdminRoutesRequireKnownUser ==
  reply.route \in {"users", "messages"} =>
    IF reply.header = <<>> \/ getUser(reply.header) = <<>>
    THEN reply.status = 401 /\ reply.data = <<>>
    ELSE /\ reply.status = 200
         /\ reply.route = "users" => Len(reply.data) = Len(users)
         /\ reply.route = "messages" => reply.data = helpMessages

\* with an account and a message stored, a header naming nobody was refused
C24_Witness ==
  /\ reply.route = "messages"
  /\ reply.header # <<>>
  /\ getUser(reply.header) = <<>>
  /\ users # <<>>
  /\ helpMessages # <<>>
  /\ reply.status = 401

(***************************************************************************)
(* Properties of the History page's accordion.                             *)
(***************************************************************************)
\* the food names the cache has a result for
CachedNames(cache) == {r.foodName : r \in cache}

\* C25: a food name is requested at most once: a cached result is never
\* dropped, and no name is requested a second time
C25_FoodNameFetchedAtMostOnce ==
  [][/\ CachedNames(cachedResults) \subseteq CachedNames(cachedResults')
     /\ \A i, j \in 1..Len(fetched') : fetched'[i] = fetched'[j] => i = j]_vars

\* item index is expanded and its card shows the loading state
ShowsLoading(index) ==
  /\ index \in expandedItems
  /\ \/ index \in loadingItems
     \/ historyPage.searchHistory[index].foodName \notin CachedNames(cachedResults)

\* C26: an expanded item that shows the loading state is collapsed or shows
\* its result or error in the end, and every index in loadingItems has a fetch
\* in flight that was started for it
C26_ExpandedItemLeavesLoading ==
  /\ \A index \in 1..(MaxSearches + 1) : ShowsLoading(index) ~> ~ShowsLoading(index)
  /\ [](\A index \in loadingItems : \E k \in 1..Len(flights) : flights[k].index = index)

(***************************************************************************)
(* Properties of the Home page's search.                                   *)
(***************************************************************************)
\* C27: while the search issued last is in flight, loading is true and no
\* results are shown, and the response to a search issued earlier changes
\* neither the results shown nor loading
C27_ResultsBelongToLatestSearch ==
  [][/\ searchTerm' # <<>> => (loading' /\ homeResults' = <<>>)
     /\ Len(earlier') < Len(earlier) =>
          (homeResults' = homeResults /\ loading' = loading)]_vars

(***************************************************************************)
(* Properties of a failed aggregation, of the client store and of the rows.*)
(***************************************************************************)
\* C28: a call that ends because a request or the reading of its response
\* threw raises the error alert, leaves the results empty and the totals null,
\* as cleared at its start, and writes no history entry
C28_FailedCallExposesNothing ==
  [][(pc = "fetch" /\ pc' = "idle" /\ ClientThrows(responses'[Len(responses')])) =>
       /\ alertMsg' = "error"
       /\ calculatedResults' = <<>>
       /\ totalNutrients' = <<>>
       /\ calculatorHistory' = calculatorHistory
       /\ ~calculating']_vars

\* a call failed on its second or third item, after at least one was processed
C28_Witness ==
  /\ pc = "idle"
  /\ alertMsg = "error"
  /\ Len(responses) >= 2
  /\ isLoggedIn
  /\ calculatedResults = <<>>
  /\ totalNutrients = <<>>

\* the rows of after are those of before except that at most one row differs,
\* in at most one of its two fields, and keeps its id
OneFieldChanged(before, after) ==
  /\ Len(after) = Len(before)
  /\ \E i \in 1..Len(before) :
       /\ \A j \in 1..Len(before) : j # i => after[j] = before[j]
       /\ after[i].id = before[i].id
       /\ after[i].foodName = before[i].foodName
            \/ after[i].amountGrams = before[i].amountGrams

\* C30: the list of rows is never empty and its ids are pairwise distinct; a
\* step that keeps the number of rows changes at most one field of one row
\* (so the removal of the only row changes nothing), a step that removes a
\* row keeps the others as they were, and a step that adds one keeps them all
C30_RowsNeverEmptyIdsDistinct ==
  /\ [](/\ Len(mealItems) >= 1
        /\ \A i, j \in 1..Len(mealItems) : mealItems[i].id = mealItems[j].id => i = j)
  /\ [][/\ Len(mealItems') = Len(mealItems) => OneFieldChanged(mealItems, mealItems')
        /\ Len(mealItems) = 1 => Len(mealItems') >= 1
        /\ Len(mealItems') < Len(mealItems) =>
             \E id \in {mealItems[i].id : i \in 1..Len(mealItems)} :
               mealItems' = SelectSeq(mealItems, LAMBDA item : item.id # id)
        /\ Len(mealItems') > Len(mealItems) =>
             SubSeq(mealItems', 1, Len(mealItems)) = mealItems]_vars

\* rows were added, the first was removed and another added, and one was typed into
C30_Witness ==
  /\ Len(mealItems) = 2
  /\ mealItems[1].id = 2
  /\ mealItems[2].id = 3
  /\ mealItems[1].foodName # <<>>

\* the store holds the keys of user u's login
HoldsLoginOf(store, u) ==
  /\ store.isLoggedIn = <<"true">>
  /\ store.userId = <<Account(u).id>>
  /\ store.loggedInEmail = <<Account(u).email>>
  /\ store.favoriteFood \in {Account(u).favoriteFood, <<>>}

\* none of the four keys is in the store
HoldsNoLogin(store) ==
  /\ store.isLoggedIn = <<>>
  /\ store.userId = <<>>
  /\ store.loggedInEmail = <<>>
  /\ store.favoriteFood = <<>>

\* C29: the store has isLoggedIn = 'true' only with the userId and the email of
\* the user who logged in last and with that user's favorite food or none; a
\* refused or failed login leaves the four keys alone, a logout removes them
C29_StoreHoldsLastLogin ==
  /\ [](localStorage.isLoggedIn # <<>> =>
          \E u \in Users : userId = u /\ HoldsLoginOf(localStorage, u))
  /\ [][/\ (warning' # "" /\ warning' # warning) => localStorage' = localStorage
        /\ (userId # "none" /\ userId' = "none") => HoldsNoLogin(localStorage')
        /\ (userId' # userId /\ userId' # "none") => HoldsLoginOf(localStorage', userId')
        /\ userId' = userId => localStorage' = localStorage]_vars

\* user B is logged in, after user A or nobody, and a later login attempt failed
C29_Witness ==
  /\ HoldsLoginOf(localStorage, "B")
  /\ localStorage.favoriteFood = <<>>
  /\ warning # ""
  /\ userId = "B"
====
